---- MODULE Spec2Model ----
(***************************************************************************)
(* Session lifecycle and message-send orchestration of the english-tutor   *)
(* backend: refresh-token rotation and revocation, the failed-login        *)
(* lockout, and the send-message pipeline.                                 *)
(*                                                                         *)
(* Every handler is an async function: it runs atomically between two      *)
(* store operations (awaits), and other requests interleave at the awaits. *)
(* A call is therefore a small process with a position (pc) and locals;    *)
(* one action is one store operation together with the synchronous code    *)
(* that follows it up to the next store operation.                         *)
(*                                                                         *)
(* Time is an integer clock.  One unit is the resolution of a JWT `iat`    *)
(* (one second): two tokens signed for the same payload in the same unit   *)
(* are the same string.  Durations are scaled to a few units.  For the     *)
(* message table one unit is the resolution of its timestamp column: two   *)
(* rows written in the same unit carry equal timestamps.                   *)
(***************************************************************************)
EXTENDS Integers, Sequences, FiniteSets, TLC

VARIABLES
    now,            \* the wall clock (new Date(), Date.now(), CURRENT_TIMESTAMP)
    users,          \* table "users": sequence of rows
    refreshTokens,  \* table "refresh_tokens": sequence of rows
    nextId,         \* source of fresh row ids (uuid)
    authCalls,      \* authService calls in flight or finished, per request slot
    wrongRun,       \* history: per account id, the wrong-password logins evaluated
                    \* since its last successful login or lock expiry
    conversations,  \* table "conversations": sequence of rows
    messages,       \* table "messages": sequence of rows, in insertion order
    nextRowId,      \* source of fresh conversation and message ids (uuid)
    chatCount,      \* number of chat calls started so far
    chatCalls,      \* chatService calls in flight or finished, per request slot
    probe           \* one call of a function that has no store: its argument and,
                    \* once it has returned, its result

chatVars == <<conversations, messages, nextRowId, chatCount, chatCalls, probe>>

vars == <<now, users, refreshTokens, nextId, authCalls, wrongRun, chatVars>>

----------------------------------------------------------------------------
\* Bounds of the model

\* the clock runs from 0 to MaxTime
MaxTime == 3
\* config.jwt.refreshExpiry ('7d'), in clock units
RefreshExpiry == 2
\* config.jwt.accessExpiry ('15m'), in clock units
AccessExpiry == 1
\* config.security.accountLockoutDuration (900000 ms), in clock units
AccountLockoutDuration == 2

\* number of chat calls (sendMessage, deleteConversation) in a run
MaxChatCalls == 2

\* runs of the scheduled cleanup job in one behaviour
MaxSweeps == 1

\* Program constants

\* config.security.maxLoginAttempts
MaxLoginAttempts == 5
\* checkAccountLock: remaining time is reported in minutes (/ 1000 / 60)
SecondsPerMinute == 60

\* the requests that can be in flight at once
Slots == {1, 2}

----------------------------------------------------------------------------
\* config.jwt

AccessSecret == "default-access-secret-change-me"
RefreshSecret == "default-refresh-secret-change-me"

----------------------------------------------------------------------------
\* utils/jwt: stateless signing and verification.  A token is the signed
\* payload: it is determined by the key, the payload and the second of issue.

generateAccessToken(payload, t) ==
    [secret |-> AccessSecret, userId |-> payload.userId, email |-> payload.email,
     role |-> payload.role, iat |-> t, exp |-> t + AccessExpiry]

\* variant: the refresh token is signed with the access key
generateRefreshTokenAccessKey(payload, t) ==
    [secret |-> AccessSecret, userId |-> payload.userId, email |-> payload.email,
     role |-> payload.role, iat |-> t, exp |-> t + RefreshExpiry]

generateRefreshToken(payload, t) ==
    [secret |-> RefreshSecret, userId |-> payload.userId, email |-> payload.email,
     role |-> payload.role, iat |-> t, exp |-> t + RefreshExpiry]

\* variant: an expired token is reported like a wrongly signed one
verifyAccessTokenOneKind(token, t) ==
    IF token.secret # AccessSecret \/ t >= token.exp THEN "TOKEN_INVALID" ELSE "ok"

\* variant: a token is also looked up in the credential store, and refused when
\* the account has no credential left that is not revoked
verifyAccessTokenAskingStore(token, t) ==
    IF token.secret # AccessSecret THEN "TOKEN_INVALID"
    ELSE IF t >= token.exp THEN "TOKEN_EXPIRED"
    ELSE IF \A i \in DOMAIN refreshTokens :
                refreshTokens[i].userId = token.userId => refreshTokens[i].revokedAt # {}
    THEN "TOKEN_INVALID"
    ELSE "ok"

\* jwt.verify: the signature is checked first, then the expiry (now >= exp)
verifyAccessToken(token, t) ==
    IF token.secret # AccessSecret THEN "TOKEN_INVALID"
    ELSE IF t >= token.exp THEN "TOKEN_EXPIRED"
    ELSE "ok"

verifyRefreshToken(token, t) ==
    IF token.secret # RefreshSecret THEN "TOKEN_INVALID"
    ELSE IF t >= token.exp THEN "TOKEN_EXPIRED"
    ELSE "ok"

getTokenExpiry(expiry, t) == t + expiry

\* a string that is no JWT of this service ('invalid-token')
ForgedToken ==
    [secret |-> "none", userId |-> 0, email |-> "", role |-> "", iat |-> 0, exp |-> 0]

NoToken ==
    [secret |-> "", userId |-> 0, email |-> "", role |-> "", iat |-> 0, exp |-> 0]

----------------------------------------------------------------------------
\* The store (Prisma over Postgres).  A nullable column is a set: {} is NULL.

ToLower(email) ==
    CASE email = "Demo@Example.com" -> "demo@example.com"
      [] email = "New@Example.com" -> "new@example.com"
      [] OTHER -> email

\* bcrypt.hash / bcrypt.compare
Hash(password) == <<"bcrypt", password>>
Compare(password, hashed) == hashed = Hash(password)

\* prisma/seed.ts: the demo user and the admin user
SeedUsers ==
    << [id |-> 1, email |-> "demo@example.com", password |-> Hash("Password123!"),
        role |-> "user", loginAttempts |-> 0, lockedUntil |-> {},
        lastLoginAt |-> {}],
       [id |-> 2, email |-> "admin@example.com", password |-> Hash("Admin123!"),
        role |-> "admin", loginAttempts |-> 0, lockedUntil |-> {},
        lastLoginAt |-> {}] >>

NoUser ==
    [id |-> 0, email |-> "", password |-> <<>>, role |-> "", loginAttempts |-> 0,
     lockedUntil |-> {}, lastLoginAt |-> {}]

NoRow ==
    [id |-> 0, token |-> NoToken, userId |-> 0, expiresAt |-> 0, createdAt |-> 0,
     revokedAt |-> {}]

\* prisma.user.findUnique({ where: { email } })
FindUserByEmail(email) ==
    IF \E i \in DOMAIN users : users[i].email = email
    THEN users[CHOOSE i \in DOMAIN users : users[i].email = email]
    ELSE NoUser

\* prisma.user.update({ where: { id }, data })
UpdateUser(id, attempts, locked, lastLogin) ==
    [i \in DOMAIN users |->
        IF users[i].id = id
        THEN [users[i] EXCEPT !.loginAttempts = attempts, !.lockedUntil = locked,
                              !.lastLoginAt = lastLogin]
        ELSE users[i]]

UserById(id) == users[CHOOSE i \in DOMAIN users : users[i].id = id]

\* prisma.refreshToken.findUnique({ where: { token } })
FindRefreshToken(token) ==
    IF \E i \in DOMAIN refreshTokens : refreshTokens[i].token = token
    THEN refreshTokens[CHOOSE i \in DOMAIN refreshTokens : refreshTokens[i].token = token]
    ELSE NoRow

HasRefreshTokenId(id) == \E i \in DOMAIN refreshTokens : refreshTokens[i].id = id

\* prisma.refreshToken.update({ where: { id }, data: { revokedAt: new Date() } })
RevokeRefreshToken(id, t) ==
    [i \in DOMAIN refreshTokens |->
        IF refreshTokens[i].id = id
        THEN [refreshTokens[i] EXCEPT !.revokedAt = {t}]
        ELSE refreshTokens[i]]

\* the unique index refresh_tokens_token_key
TokenTaken(token) == \E i \in DOMAIN refreshTokens : refreshTokens[i].token = token

\* prisma.refreshToken.create({ data: { token, userId, expiresAt } })
NewRefreshRow(id, token, userId, t) ==
    [id |-> id, token |-> token, userId |-> userId,
     expiresAt |-> getTokenExpiry(RefreshExpiry, t), createdAt |-> t, revokedAt |-> {}]

TokenPayload(user) == [userId |-> user.id, email |-> user.email, role |-> user.role]

----------------------------------------------------------------------------
\* A request slot of authService

IdleAuth ==
    [op |-> "idle", pc |-> "idle", email |-> "", password |-> "", token |-> NoToken,
     user |-> NoUser, row |-> NoRow, res |-> "", out |-> NoToken, access |-> NoToken,
     remaining |-> 0, revoked |-> FALSE, unlocked |-> FALSE]

AuthFree(p) == authCalls[p].pc \in {"idle", "done"}

\* the end of a call: its result (an error code, or "ok")
AuthDone(p, res) ==
    [authCalls EXCEPT ![p].pc = "done", ![p].res = res, ![p].row = NoRow,
                      ![p].user = NoUser]

Tick ==
    /\ now < MaxTime
    /\ now' = now + 1
    /\ UNCHANGED <<users, refreshTokens, nextId, authCalls, wrongRun, chatVars>>

----------------------------------------------------------------------------
\* authService.refreshAccessToken

\* variant: the revokedAt check is left out
RefreshOutcomeIgnoresRevoked(token, row, t) ==
    IF verifyRefreshToken(token, t) # "ok" THEN verifyRefreshToken(token, t)
    ELSE IF row = NoRow THEN "TOKEN_INVALID"
    ELSE IF row.expiresAt < t THEN "TOKEN_EXPIRED"
    ELSE "ok"

\* variant: the signature decides alone, the stored record is not looked at
RefreshOutcomeSignatureOnly(token, row, t) == verifyRefreshToken(token, t)

\* variant: every rejection is reported as TOKEN_INVALID
RefreshOutcomeOneKind(token, row, t) ==
    IF verifyRefreshToken(token, t) # "ok" THEN "TOKEN_INVALID"
    ELSE IF row = NoRow THEN "TOKEN_INVALID"
    ELSE IF row.revokedAt # {} THEN "TOKEN_INVALID"
    ELSE IF row.expiresAt < t THEN "TOKEN_INVALID"
    ELSE "ok"

\* verifyRefreshToken, then findUnique({ where: { token }, include: { user } })
\* and the three checks on the row that was read
RefreshOutcome(token, row, t) ==
    IF verifyRefreshToken(token, t) # "ok" THEN verifyRefreshToken(token, t)
    ELSE IF row = NoRow THEN "TOKEN_INVALID"
    ELSE IF row.revokedAt # {} THEN "TOKEN_INVALID"
    ELSE IF row.expiresAt < t THEN "TOKEN_EXPIRED"
    ELSE "ok"

RefreshStart(p, token) ==
    /\ AuthFree(p)
    /\ LET row == FindRefreshToken(token)
           outcome == RefreshOutcome(token, row, now)
           call == [IdleAuth EXCEPT !.op = "refresh", !.token = token]
       IN authCalls' =
            IF outcome # "ok"
            THEN [authCalls EXCEPT ![p] = [call EXCEPT !.pc = "done", !.res = outcome]]
            ELSE [authCalls EXCEPT ![p] =
                    [call EXCEPT !.pc = "revoke", !.row = row,
                                 !.user = UserById(row.userId)]]
    /\ UNCHANGED <<now, users, refreshTokens, nextId, wrongRun, chatVars>>

\* prisma.refreshToken.update({ where: { id: storedToken.id }, data: { revokedAt } })
\* the update is by id alone: it does not ask that the row is still unrevoked
RefreshRevoke(p) ==
    /\ authCalls[p].op = "refresh"
    /\ authCalls[p].pc = "revoke"
    /\ IF HasRefreshTokenId(authCalls[p].row.id)
       THEN /\ refreshTokens' = RevokeRefreshToken(authCalls[p].row.id, now)
            /\ authCalls' = [authCalls EXCEPT ![p].pc = "issue", ![p].revoked = TRUE]
       ELSE /\ authCalls' = AuthDone(p, "P2025")
            /\ UNCHANGED refreshTokens
    /\ UNCHANGED <<now, users, nextId, wrongRun, chatVars>>

\* generateAccessToken, generateRefreshToken, prisma.refreshToken.create, return
RefreshIssue(p) ==
    /\ authCalls[p].op = "refresh"
    /\ authCalls[p].pc = "issue"
    /\ LET payload == TokenPayload(authCalls[p].user)
           newAccessToken == generateAccessToken(payload, now)
           newRefreshToken == generateRefreshToken(payload, now)
       IN IF TokenTaken(newRefreshToken)
          THEN /\ authCalls' = AuthDone(p, "P2002")
               /\ UNCHANGED <<refreshTokens, nextId, wrongRun, chatVars>>
          ELSE /\ refreshTokens' = Append(refreshTokens,
                        NewRefreshRow(nextId, newRefreshToken, authCalls[p].user.id, now))
               /\ nextId' = nextId + 1
               /\ authCalls' = [AuthDone(p, "ok") EXCEPT ![p].out = newRefreshToken,
                                                          ![p].access = newAccessToken]
    /\ UNCHANGED <<now, users, wrongRun, chatVars>>

----------------------------------------------------------------------------
\* authService.logout

\* logout without the revokedAt test: every stored token is revoked again
LogoutStartAlwaysRevoke(p, token) ==
    /\ AuthFree(p)
    /\ LET row == FindRefreshToken(token)
           call == [IdleAuth EXCEPT !.op = "logout", !.token = token]
       IN authCalls' =
            IF row # NoRow
            THEN [authCalls EXCEPT ![p] = [call EXCEPT !.pc = "revoke", !.row = row]]
            ELSE [authCalls EXCEPT ![p] = [call EXCEPT !.pc = "done", !.res = "ok"]]
    /\ UNCHANGED <<now, users, refreshTokens, nextId, wrongRun, chatVars>>

\* findUnique({ where: { token } }); if (token && !token.revokedAt) ...
LogoutStart(p, token) ==
    /\ AuthFree(p)
    /\ LET row == FindRefreshToken(token)
           call == [IdleAuth EXCEPT !.op = "logout", !.token = token]
       IN authCalls' =
            IF row # NoRow /\ row.revokedAt = {}
            THEN [authCalls EXCEPT ![p] = [call EXCEPT !.pc = "revoke", !.row = row]]
            ELSE [authCalls EXCEPT ![p] = [call EXCEPT !.pc = "done", !.res = "ok"]]
    /\ UNCHANGED <<now, users, refreshTokens, nextId, wrongRun, chatVars>>

\* prisma.refreshToken.update({ where: { id: token.id }, data: { revokedAt } })
LogoutRevoke(p) ==
    /\ authCalls[p].op = "logout"
    /\ authCalls[p].pc = "revoke"
    /\ IF HasRefreshTokenId(authCalls[p].row.id)
       THEN /\ refreshTokens' = RevokeRefreshToken(authCalls[p].row.id, now)
            /\ authCalls' = [AuthDone(p, "ok") EXCEPT ![p].revoked = TRUE]
       ELSE /\ authCalls' = AuthDone(p, "P2025")
            /\ UNCHANGED refreshTokens
    /\ UNCHANGED <<now, users, nextId, wrongRun, chatVars>>

----------------------------------------------------------------------------
\* authService.cleanupExpiredTokens

\* the number of runs of the scheduled job so far
SweepRuns == IF probe.fn = "cleanupExpiredTokens" THEN probe.runs ELSE 0

\* deleteMany({ where: { OR: [{ expiresAt: { lt: new Date() } },
\*                            { revokedAt: { not: null } }] } }); returns result.count
cleanupExpiredTokens ==
    LET Matches(row) == row.expiresAt < now \/ row.revokedAt # {}
        Kept(row) == ~Matches(row)
    IN /\ SweepRuns < MaxSweeps
       /\ refreshTokens' = SelectSeq(refreshTokens, Kept)
       /\ probe' = [fn |-> "cleanupExpiredTokens", arg |-> <<>>,
                    out |-> Len(SelectSeq(refreshTokens, Matches)), done |-> TRUE,
                    runs |-> SweepRuns + 1]
       /\ UNCHANGED <<now, users, nextId, authCalls, wrongRun, conversations, messages,
                      nextRowId, chatCount, chatCalls>>

----------------------------------------------------------------------------
\* authService.login with checkAccountLock and handleFailedLogin

CeilDiv(a, b) == (a + b - 1) \div b

\* variant: a running lock is treated like an elapsed one
checkAccountLockNeverLocked(user, t) ==
    IF user.lockedUntil # {} THEN "expired" ELSE "open"

\* checkAccountLock: "locked" (throws), "expired" (resets the row) or "open"
checkAccountLock(user, t) ==
    IF \E l \in user.lockedUntil : l > t THEN "locked"
    ELSE IF \E l \in user.lockedUntil : l <= t THEN "expired"
    ELSE "open"

\* Math.ceil((lockedUntil - now) / 1000 / 60)
RemainingTime(user, t) ==
    CeilDiv((CHOOSE l \in user.lockedUntil : TRUE) - t, SecondsPerMinute)

\* findUnique({ where: { email: email.toLowerCase() } }), then the synchronous
\* head of checkAccountLock on the row that was read
LoginStart(p, email, password) ==
    /\ AuthFree(p)
    /\ LET user == FindUserByEmail(ToLower(email))
           call == [IdleAuth EXCEPT !.op = "login", !.email = email,
                                    !.password = password, !.user = user]
       IN authCalls' =
            IF user = NoUser
            THEN [authCalls EXCEPT ![p] =
                    [call EXCEPT !.pc = "done", !.res = "INVALID_CREDENTIALS"]]
            ELSE IF checkAccountLock(user, now) = "locked"
            THEN [authCalls EXCEPT ![p] =
                    [call EXCEPT !.pc = "done", !.res = "ACCOUNT_LOCKED", !.user = NoUser,
                                 !.remaining = RemainingTime(user, now)]]
            ELSE IF checkAccountLock(user, now) = "expired"
            THEN [authCalls EXCEPT ![p] = [call EXCEPT !.pc = "reset"]]
            ELSE [authCalls EXCEPT ![p] = [call EXCEPT !.pc = "password"]]
    /\ UNCHANGED <<now, users, refreshTokens, nextId, wrongRun, chatVars>>

\* checkAccountLock, "Reset lock if expired": update({ loginAttempts: 0,
\* lockedUntil: null }).  The local `user` of login is not read again.
LoginResetLock(p) ==
    /\ authCalls[p].op = "login"
    /\ authCalls[p].pc = "reset"
    /\ users' = UpdateUser(authCalls[p].user.id, 0, {},
                           UserById(authCalls[p].user.id).lastLoginAt)
    /\ authCalls' = [authCalls EXCEPT ![p].pc = "password", ![p].unlocked = TRUE]
    /\ wrongRun' = [wrongRun EXCEPT ![authCalls[p].user.id] = 0]
    /\ UNCHANGED <<now, refreshTokens, nextId, chatVars>>

\* variant: the counter is incremented but the lock is never set
FailedLoginRowNoLock(current, currentAttempts, t) ==
    [current EXCEPT !.loginAttempts = currentAttempts + 1]

\* variant: the lock is set one attempt late
FailedLoginRowLocksLate(current, currentAttempts, t) ==
    IF currentAttempts + 1 > MaxLoginAttempts
    THEN [current EXCEPT !.loginAttempts = currentAttempts + 1,
                         !.lockedUntil = {t + AccountLockoutDuration}]
    ELSE [current EXCEPT !.loginAttempts = currentAttempts + 1]

\* handleFailedLogin(userId, currentAttempts): the row after its update
FailedLoginRow(current, currentAttempts, t) ==
    IF currentAttempts + 1 >= MaxLoginAttempts
    THEN [current EXCEPT !.loginAttempts = currentAttempts + 1,
                         !.lockedUntil = {t + AccountLockoutDuration}]
    ELSE [current EXCEPT !.loginAttempts = currentAttempts + 1]

\* variant: the attempt that locks is answered like any other wrong password
FailedLoginErrorAlwaysInvalid(currentAttempts) == "INVALID_CREDENTIALS"

\* handleFailedLogin throws ACCOUNT_LOCKED itself when it locks; otherwise login
\* throws INVALID_CREDENTIALS after it
FailedLoginError(currentAttempts) ==
    IF currentAttempts + 1 >= MaxLoginAttempts THEN "ACCOUNT_LOCKED"
    ELSE "INVALID_CREDENTIALS"

\* bcrypt.compare, then handleFailedLogin(user.id, user.loginAttempts) or the
\* update that resets the counters on success
LoginPassword(p) ==
    /\ authCalls[p].op = "login"
    /\ authCalls[p].pc = "password"
    /\ LET user == authCalls[p].user
           current == UserById(user.id)
           failed == FailedLoginRow(current, user.loginAttempts, now)
       IN IF ~Compare(authCalls[p].password, user.password)
          THEN /\ users' = UpdateUser(user.id, failed.loginAttempts, failed.lockedUntil,
                                      current.lastLoginAt)
               /\ authCalls' = AuthDone(p, FailedLoginError(user.loginAttempts))
               /\ wrongRun' = [wrongRun EXCEPT ![user.id] = @ + 1]
          ELSE /\ users' = UpdateUser(user.id, 0, {}, {now})
               /\ authCalls' = [authCalls EXCEPT ![p].pc = "issue"]
               /\ wrongRun' = [wrongRun EXCEPT ![user.id] = 0]
    /\ UNCHANGED <<now, refreshTokens, nextId, chatVars>>

\* generateAccessToken, generateRefreshToken, prisma.refreshToken.create, return
LoginIssue(p) ==
    /\ authCalls[p].op = "login"
    /\ authCalls[p].pc = "issue"
    /\ LET payload == TokenPayload(authCalls[p].user)
           accessToken == generateAccessToken(payload, now)
           refreshToken == generateRefreshToken(payload, now)
       IN IF TokenTaken(refreshToken)
          THEN /\ authCalls' = AuthDone(p, "P2002")
               /\ UNCHANGED <<refreshTokens, nextId, wrongRun, chatVars>>
          ELSE /\ refreshTokens' = Append(refreshTokens,
                        NewRefreshRow(nextId, refreshToken, authCalls[p].user.id, now))
               /\ nextId' = nextId + 1
               /\ authCalls' = [AuthDone(p, "ok") EXCEPT ![p].out = refreshToken,
                                                          ![p].access = accessToken]
    /\ UNCHANGED <<now, users, wrongRun, chatVars>>

----------------------------------------------------------------------------
\* authService.register

\* findUnique({ where: { email: data.email.toLowerCase() } }) and the
\* ConflictError when a row is found
RegisterStart(p, email, password) ==
    /\ AuthFree(p)
    /\ LET existingUser == FindUserByEmail(ToLower(email))
           call == [IdleAuth EXCEPT !.op = "register", !.email = email,
                                    !.password = password]
       IN authCalls' =
            IF existingUser # NoUser
            THEN [authCalls EXCEPT ![p] =
                    [call EXCEPT !.pc = "done", !.res = "EMAIL_ALREADY_EXISTS"]]
            ELSE [authCalls EXCEPT ![p] = [call EXCEPT !.pc = "create"]]
    /\ UNCHANGED <<now, users, refreshTokens, nextId, wrongRun, chatVars>>

\* prisma.user.create({ data: { email: data.email.toLowerCase(), ... } })
NewUser(id, email, password) ==
    [id |-> id, email |-> ToLower(email), password |-> Hash(password), role |-> "user",
     loginAttempts |-> 0, lockedUntil |-> {}, lastLoginAt |-> {}]

\* variant: the users table has no unique index on email
RegisterCreateNoIndex(p) ==
    /\ authCalls[p].op = "register"
    /\ authCalls[p].pc = "create"
    /\ LET user == NewUser(Len(users) + 1, authCalls[p].email, authCalls[p].password)
       IN /\ users' = Append(users, user)
          /\ wrongRun' = Append(wrongRun, 0)
          /\ authCalls' = [authCalls EXCEPT ![p].pc = "issue", ![p].user = user]
    /\ UNCHANGED <<now, refreshTokens, nextId, chatVars>>

\* bcrypt.hash, then prisma.user.create; the unique index users_email_key
\* rejects a second row with the same email (P2002)
RegisterCreate(p) ==
    /\ authCalls[p].op = "register"
    /\ authCalls[p].pc = "create"
    /\ LET user == NewUser(Len(users) + 1, authCalls[p].email, authCalls[p].password)
       IN IF FindUserByEmail(user.email) # NoUser
          THEN /\ authCalls' = AuthDone(p, "P2002")
               /\ UNCHANGED <<users, wrongRun>>
          ELSE /\ users' = Append(users, user)
               /\ wrongRun' = Append(wrongRun, 0)
               /\ authCalls' = [authCalls EXCEPT ![p].pc = "issue", ![p].user = user]
    /\ UNCHANGED <<now, refreshTokens, nextId, chatVars>>

\* generateAccessToken, generateRefreshToken, prisma.refreshToken.create, return
RegisterIssue(p) ==
    /\ authCalls[p].op = "register"
    /\ authCalls[p].pc = "issue"
    /\ LET payload == TokenPayload(authCalls[p].user)
           accessToken == generateAccessToken(payload, now)
           refreshToken == generateRefreshToken(payload, now)
       IN IF TokenTaken(refreshToken)
          THEN /\ authCalls' = AuthDone(p, "P2002")
               /\ UNCHANGED <<refreshTokens, nextId>>
          ELSE /\ refreshTokens' = Append(refreshTokens,
                        NewRefreshRow(nextId, refreshToken, authCalls[p].user.id, now))
               /\ nextId' = nextId + 1
               /\ authCalls' = [authCalls EXCEPT ![p].pc = "done", ![p].res = "ok",
                                                 ![p].out = refreshToken,
                                                 ![p].access = accessToken]
    /\ UNCHANGED <<now, users, wrongRun, chatVars>>

\* middleware/errorHandler: the status of the response to a call that threw.
\* An AppError carries its status; P2002, P2025 and the validation error of the
\* Prisma client have a branch each; anything else is a 500.
ErrorStatus(res) ==
    CASE res = "EMAIL_ALREADY_EXISTS" -> 409
      [] res = "P2002" -> 409
      [] res = "P2025" -> 404
      [] res = "NOT_FOUND" -> 404
      [] res = "FORBIDDEN" -> 403
      [] res = "VALIDATION_ERROR" -> 400
      [] res \in {"INVALID_CREDENTIALS", "ACCOUNT_LOCKED", "TOKEN_INVALID",
                  "TOKEN_EXPIRED", "TOKEN_REVOKED"} -> 401
      [] OTHER -> 500

----------------------------------------------------------------------------
\* agentClient: the outbound call to the generation service

FallbackContent == "I'm having trouble processing your message right now. Please try again."

\* the metadata column (Json): a number that is absent, or NaN (stored as JSON
\* null), is the empty set
NoMetadata == [model |-> "", tokens |-> {}, processingTime |-> {}]

\* a JavaScript value of the response body: its type and String(value)
JsString(str) == [type |-> "string", str |-> str]
JsNumber(str) == [type |-> "number", str |-> str]
JsUndefined == [type |-> "undefined", str |-> "undefined"]
JsNull == [type |-> "null", str |-> "null"]

\* the body of a response: text that is not JSON, the JSON value null, or a JSON
\* object with its `response` and `iterations` members
BodyNotJson == [json |-> "invalid", response |-> JsUndefined, iterations |-> {}]
BodyNull == [json |-> "null", response |-> JsUndefined, iterations |-> {}]
BodyObject(response, iterations) ==
    [json |-> "object", response |-> response, iterations |-> iterations]

\* what the fetch comes to: a response with a status and a body, a network
\* error, or the abort of AbortSignal.timeout
Responded(status, body) == [kind |-> "response", status |-> status, body |-> body]
NetworkError == [kind |-> "network_error", status |-> 0, body |-> BodyNotJson]
TimedOut == [kind |-> "timeout", status |-> 0, body |-> BodyNotJson]

\* the outcomes the chat specification draws from
FetchOutcomes == {
    Responded(200, BodyObject(JsString("Hello! How can I help?"), {1})),
    Responded(200, BodyObject(JsNumber("42"), {1})),
    Responded(503, BodyNotJson),
    NetworkError,
    TimedOut }

\* s has sub at position i
At(s, sub, i) == i + Len(sub) - 1 <= Len(s) /\ SubSeq(s, i, i + Len(sub) - 1) = sub

\* open, then at least gap characters none of which is a stop character, then close
Delimited(s, open, close, gap, stops) ==
    \E i \in 1..Len(s) :
        /\ At(s, open, i)
        /\ \E j \in (i + Len(open) + gap)..Len(s) :
            /\ At(s, close, j)
            /\ \A k \in (i + Len(open))..(j - 1) : SubSeq(s, k, k) \notin stops

\* the position starts a line, after optional blanks
LineStart(s, i) ==
    \E b \in 1..i :
        /\ b = 1 \/ SubSeq(s, b - 1, b - 1) = "\n"
        /\ \A k \in b..(i - 1) : SubSeq(s, k, k) \in {" ", "\t"}

Blank(s, i) == i <= Len(s) /\ SubSeq(s, i, i) \in {" ", "\t", "\n"}

Digits == {"0", "1", "2", "3", "4", "5", "6", "7", "8", "9"}

\* a TLA+ string cannot hold the backquote character: the model writes it as ^
Backquote == "^"

Fence == Backquote \o Backquote \o Backquote

\* variant: only fenced code blocks are sniffed
detectMessageFormatFencedOnly(content) ==
    IF Delimited(content, Fence, Fence, 0, {}) THEN "markdown" ELSE "text"

\* detectMessageFormat: the markdownPatterns, one disjunct per pattern
detectMessageFormat(content) ==
    LET hasMarkdown ==
        \/ Delimited(content, Fence, Fence, 0, {})
        \/ Delimited(content, Backquote, Backquote, 1, {Backquote})
        \/ \E i \in 1..Len(content), n \in 1..6 :
                /\ i = 1 \/ SubSeq(content, i - 1, i - 1) = "\n"
                /\ \A k \in i..(i + n - 1) : At(content, "#", k)
                /\ Blank(content, i + n)
        \/ Delimited(content, "**", "**", 0, {})
        \/ Delimited(content, "*", "*", 0, {})
        \/ Delimited(content, "_", "_", 0, {})
        \/ \E i \in 1..Len(content) :
                /\ LineStart(content, i)
                /\ SubSeq(content, i, i) \in {"-", "*", "+"}
                /\ Blank(content, i + 1)
        \/ \E i \in 1..Len(content), j \in 1..Len(content) :
                /\ i <= j
                /\ LineStart(content, i)
                /\ \A k \in i..j : SubSeq(content, k, k) \in Digits
                /\ At(content, ".", j + 1)
                /\ Blank(content, j + 2)
        \/ \E i \in 1..Len(content) :
                /\ At(content, "[", i)
                /\ \E j \in (i + 1)..Len(content) :
                    /\ At(content, "](", j)
                    /\ \A k \in i..j : SubSeq(content, k, k) # "\n"
                    /\ Delimited(SubSeq(content, j + 1, Len(content)), "(", ")", 0, {"\n"})
        \/ \E i \in 1..Len(content) :
                /\ LineStart(content, i)
                /\ At(content, ">", i)
                /\ Blank(content, i + 1)
        \/ \E i \in 1..Len(content) :
                /\ At(content, "|", i)
                /\ Delimited(SubSeq(content, i + 1, Len(content)), "|", "|", 0, {"\n"})
                /\ \A k \in i..Len(content) :
                        At(content, "\n", k) =>
                            Delimited(SubSeq(content, i, k - 1), "|", "|", 0, {"\n"})
                            /\ \E m \in (i + 1)..(k - 1) :
                                At(content, "|", m)
                                /\ Delimited(SubSeq(content, m, k - 1), "|", "|", 0, {"\n"})
        \/ \E i \in 1..Len(content), j \in 1..Len(content) :
                /\ j >= i + 2
                /\ i = 1 \/ SubSeq(content, i - 1, i - 1) = "\n"
                /\ \A k \in i..j : At(content, "-", k)
                /\ j = Len(content) \/ At(content, "\n", j + 1)
        \/ Delimited(content, "~~", "~~", 0, {})
    IN IF hasMarkdown THEN "markdown" ELSE "text"

\* response.ok
ResponseOk(fetched) == fetched.status >= 200 /\ fetched.status <= 299

\* the try block of agentClient.sendMessage throws: fetch rejects, the status is
\* not 2xx, response.json() rejects, `data` is null, or `data.response.length`
\* is read off undefined or null
FetchThrows(fetched) ==
    \/ fetched.kind # "response"
    \/ ~ResponseOk(fetched)
    \/ fetched.body.json # "object"
    \/ fetched.body.response.type \in {"undefined", "null"}

\* Math.floor(data.response.length / 4): NaN when the value has no length
ApproximateTokens(response) ==
    IF response.type = "string" THEN {Len(response.str) \div 4} ELSE {}

\* agentClient.sendMessage: the try block's return, or the catch block's fallback
AgentSendMessage(fetched) ==
    IF FetchThrows(fetched)
    THEN [content |-> FallbackContent, contentType |-> "string", format |-> "text",
          metadata |-> [model |-> "llm-backend-v1", tokens |-> {0},
                        processingTime |-> {}]]
    ELSE [content |-> fetched.body.response.str,
          contentType |-> fetched.body.response.type,
          format |-> detectMessageFormat(fetched.body.response.str),
          metadata |-> [model |-> "llm-backend-v1",
                        tokens |-> ApproximateTokens(fetched.body.response),
                        processingTime |-> {n * 100 : n \in fetched.body.iterations}]]

\* variant: the history goes out as it is, without the current message
transformMessagesToLLMFormatHistoryOnly(conversationHistory, currentMessage) ==
    [i \in DOMAIN conversationHistory |->
        [role |-> conversationHistory[i].role,
         content |-> conversationHistory[i].content]]

\* transformMessagesToLLMFormat: role and content of each row, then the current
\* message as a user entry
transformMessagesToLLMFormat(conversationHistory, currentMessage) ==
    [i \in DOMAIN conversationHistory |->
        [role |-> conversationHistory[i].role,
         content |-> conversationHistory[i].content]]
    \o << [role |-> "user", content |-> currentMessage] >>

NoResponse == [content |-> "", contentType |-> "", format |-> "", metadata |-> NoMetadata]

----------------------------------------------------------------------------
\* chatService: conversations and messages

\* variant: the ellipsis is counted into the 50 characters
generateConversationTitleWithinCap(message) ==
    IF Len(message) <= 50 THEN message ELSE SubSeq(message, 1, 47) \o "..."

\* generateConversationTitle
generateConversationTitle(message) ==
    LET title == SubSeq(message, 1, IF Len(message) < 50 THEN Len(message) ELSE 50)
    IN IF Len(title) < Len(message) THEN title \o "..." ELSE title

NoMessage ==
    [id |-> 0, conversationId |-> 0, role |-> "", content |-> "", format |-> "",
     status |-> "", timestamp |-> 0, metadata |-> NoMetadata]

NoConversation == [id |-> 0, userId |-> 0, title |-> "", createdAt |-> 0, updatedAt |-> 0]

\* prisma/seed.ts: the sample conversation of the demo user
SeedConversations ==
    << [id |-> 1, userId |-> 1, title |-> "Getting Started with English",
        createdAt |-> 0, updatedAt |-> 0] >>

SeedMessages ==
    << [id |-> 2, conversationId |-> 1, role |-> "user",
        content |-> "Hello! I want to improve my English.", format |-> "text",
        status |-> "sent", timestamp |-> 0, metadata |-> NoMetadata],
       [id |-> 3, conversationId |-> 1, role |-> "assistant",
        content |-> "Hello! I'm here to help you improve your English. What area would you like to focus on - grammar, vocabulary, pronunciation, or conversation practice?",
        format |-> "text", status |-> "sent", timestamp |-> 0,
        metadata |-> [model |-> "mock-agent", tokens |-> {35}, processingTime |-> {}]] >>

\* prisma.conversation.findUnique({ where: { id } })
FindConversation(id) ==
    IF \E i \in DOMAIN conversations : conversations[i].id = id
    THEN conversations[CHOOSE i \in DOMAIN conversations : conversations[i].id = id]
    ELSE NoConversation

\* the rows of one conversation
InConversation(id) == {messages[i] : i \in {j \in DOMAIN messages : messages[j].conversationId = id}}

\* orderBy: { timestamp: 'asc' } with no second sort key: every arrangement of the
\* rows in ascending timestamp order is a result the store may return
RECURSIVE OrderByTimestamp(_)
OrderByTimestamp(rows) ==
    IF rows = {} THEN {<<>>}
    ELSE UNION { { <<m>> \o rest : rest \in OrderByTimestamp(rows \ {m}) } :
                 m \in {r \in rows : \A o \in rows : r.timestamp <= o.timestamp} }

\* prisma.message.create({ data })
NewMessage(id, conversationId, role, content, format, metadata, t) ==
    [id |-> id, conversationId |-> conversationId, role |-> role, content |-> content,
     format |-> format, status |-> "sent", timestamp |-> t, metadata |-> metadata]

\* chatService.getConversation(userId, conversationId): the responses it may give
getConversation(userId, conversationId) ==
    LET conversation == FindConversation(conversationId)
    IN IF conversation = NoConversation
       THEN {[res |-> "NOT_FOUND", messages |-> <<>>]}
       ELSE IF conversation.userId # userId
       THEN {[res |-> "FORBIDDEN", messages |-> <<>>]}
       ELSE {[res |-> "ok", messages |-> ordered] :
                ordered \in OrderByTimestamp(InConversation(conversationId))}

IdleChat ==
    [op |-> "idle", pc |-> "idle", userId |-> 0, message |-> "", conversationId |-> {},
     conv |-> 0, history |-> <<>>, userMessage |-> NoMessage,
     agentResponse |-> NoResponse, assistantMessage |-> NoMessage, res |-> "",
     failed |-> FALSE, listed |-> <<>>, request |-> <<>>]

ChatFree(p) == chatCalls[p].pc \in {"idle", "done"}

ChatDone(p, res) ==
    [chatCalls EXCEPT ![p].pc = "done", ![p].res = res, ![p].history = <<>>]

authVars == <<users, refreshTokens, nextId, authCalls, wrongRun, probe>>

\* variant: every call starts a conversation of its own, whatever id it is given
SendStartAlwaysCreates(p, userId, message, conversationId) ==
    /\ ChatFree(p)
    /\ chatCount < MaxChatCalls
    /\ chatCount' = chatCount + 1
    /\ conversations' = Append(conversations,
            [id |-> nextRowId, userId |-> userId,
             title |-> generateConversationTitle(message),
             createdAt |-> now, updatedAt |-> now])
    /\ nextRowId' = nextRowId + 1
    /\ chatCalls' = [chatCalls EXCEPT ![p] =
            [IdleChat EXCEPT !.op = "send", !.userId = userId, !.message = message,
                             !.conversationId = conversationId, !.pc = "user",
                             !.conv = nextRowId]]
    /\ UNCHANGED <<now, messages, authVars>>

\* chatService.sendMessage, step 1: resolve the conversation (findUnique with its
\* messages and the owner check) or create one
SendStart(p, userId, message, conversationId) ==
    /\ ChatFree(p)
    /\ chatCount < MaxChatCalls
    /\ chatCount' = chatCount + 1
    /\ LET call == [IdleChat EXCEPT !.op = "send", !.userId = userId,
                                    !.message = message,
                                    !.conversationId = conversationId]
       IN IF conversationId # {}
          THEN LET id == CHOOSE c \in conversationId : TRUE
                   existingConversation == FindConversation(id)
               IN /\ IF existingConversation = NoConversation
                     THEN chatCalls' = [chatCalls EXCEPT ![p] =
                                [call EXCEPT !.pc = "done", !.res = "NOT_FOUND"]]
                     ELSE IF existingConversation.userId # userId
                     THEN chatCalls' = [chatCalls EXCEPT ![p] =
                                [call EXCEPT !.pc = "done", !.res = "FORBIDDEN"]]
                     ELSE \E conversationHistory \in OrderByTimestamp(InConversation(id)) :
                            chatCalls' = [chatCalls EXCEPT ![p] =
                                [call EXCEPT !.pc = "user", !.conv = id,
                                             !.history = conversationHistory]]
                  /\ UNCHANGED <<conversations, nextRowId>>
          ELSE /\ conversations' = Append(conversations,
                        [id |-> nextRowId, userId |-> userId,
                         title |-> generateConversationTitle(message),
                         createdAt |-> now, updatedAt |-> now])
               /\ nextRowId' = nextRowId + 1
               /\ chatCalls' = [chatCalls EXCEPT ![p] =
                                    [call EXCEPT !.pc = "user", !.conv = nextRowId]]
    /\ UNCHANGED <<now, messages, authVars>>

\* variant: the user turn is built but its create is left for later
SendUserMessageNotStored(p) ==
    /\ chatCalls[p].op = "send"
    /\ chatCalls[p].pc = "user"
    /\ chatCalls' = [chatCalls EXCEPT
            ![p].pc = "generate",
            ![p].userMessage = NewMessage(nextRowId, chatCalls[p].conv, "user",
                                          chatCalls[p].message, "text", NoMetadata, now),
            ![p].request = transformMessagesToLLMFormat(chatCalls[p].history,
                                                        chatCalls[p].message)]
    /\ nextRowId' = nextRowId + 1
    /\ UNCHANGED <<now, conversations, messages, chatCount, authVars>>

\* variant: the messages table has no foreign key on conversationId
SendUserMessageNoForeignKey(p) ==
    /\ chatCalls[p].op = "send"
    /\ chatCalls[p].pc = "user"
    /\ LET userMessage == NewMessage(nextRowId, chatCalls[p].conv, "user",
                                     chatCalls[p].message, "text", NoMetadata, now)
       IN /\ messages' = Append(messages, userMessage)
          /\ nextRowId' = nextRowId + 1
          /\ chatCalls' = [chatCalls EXCEPT
                ![p].pc = "generate",
                ![p].userMessage = userMessage,
                ![p].request = transformMessagesToLLMFormat(
                                    chatCalls[p].history, chatCalls[p].message)]
    /\ UNCHANGED <<now, conversations, chatCount, authVars>>

\* step 2: prisma.message.create of the user turn; the foreign key
\* messages_conversationId_fkey rejects it when the conversation is gone. The
\* call goes on into agentClient.sendMessage up to its fetch, whose body is
\* JSON.stringify({ messages })
SendUserMessage(p) ==
    /\ chatCalls[p].op = "send"
    /\ chatCalls[p].pc = "user"
    /\ IF FindConversation(chatCalls[p].conv) = NoConversation
       THEN /\ chatCalls' = ChatDone(p, "P2003")
            /\ UNCHANGED <<messages, nextRowId>>
       ELSE LET userMessage == NewMessage(nextRowId, chatCalls[p].conv, "user",
                                          chatCalls[p].message, "text", NoMetadata, now)
            IN /\ messages' = Append(messages, userMessage)
               /\ nextRowId' = nextRowId + 1
               /\ chatCalls' = [chatCalls EXCEPT
                        ![p].pc = "generate",
                        ![p].userMessage = userMessage,
                        ![p].request = transformMessagesToLLMFormat(
                                            chatCalls[p].history, chatCalls[p].message)]
    /\ UNCHANGED <<now, conversations, chatCount, authVars>>

\* step 3: agentClient.sendMessage, called with the history read in step 1, has
\* posted `request` and returns (the fetch has come to an end)
SendGenerate(p, fetched) ==
    /\ chatCalls[p].op = "send"
    /\ chatCalls[p].pc = "generate"
    /\ chatCalls' = [chatCalls EXCEPT ![p].pc = "assistant",
                                      ![p].agentResponse = AgentSendMessage(fetched),
                                      ![p].failed = FetchThrows(fetched),
                                      ![p].history = <<>>,
                                      ![p].request = <<>>]
    /\ UNCHANGED <<now, conversations, messages, nextRowId, chatCount, authVars>>

\* step 4: prisma.message.create of the assistant turn; the client rejects a
\* content that is not a string before it sends the query
SendAssistantMessage(p) ==
    /\ chatCalls[p].op = "send"
    /\ chatCalls[p].pc = "assistant"
    /\ IF chatCalls[p].agentResponse.contentType # "string"
       THEN /\ chatCalls' = ChatDone(p, "VALIDATION_ERROR")
            /\ UNCHANGED <<messages, nextRowId>>
       ELSE IF FindConversation(chatCalls[p].conv) = NoConversation
       THEN /\ chatCalls' = ChatDone(p, "P2003")
            /\ UNCHANGED <<messages, nextRowId>>
       ELSE LET agentResponse == chatCalls[p].agentResponse
                assistantMessage ==
                    NewMessage(nextRowId, chatCalls[p].conv, "assistant",
                               agentResponse.content, agentResponse.format,
                               agentResponse.metadata, now)
            IN /\ messages' = Append(messages, assistantMessage)
               /\ nextRowId' = nextRowId + 1
               /\ chatCalls' = [chatCalls EXCEPT ![p].pc = "touch",
                                                 ![p].assistantMessage = assistantMessage]
    /\ UNCHANGED <<now, conversations, chatCount, authVars>>

\* variant: the call returns without the update of updatedAt
SendTouchNoUpdate(p) ==
    /\ chatCalls[p].op = "send"
    /\ chatCalls[p].pc = "touch"
    /\ chatCalls' = ChatDone(p, IF FindConversation(chatCalls[p].conv) = NoConversation
                                THEN "P2025" ELSE "ok")
    /\ UNCHANGED <<now, conversations, messages, nextRowId, chatCount, authVars>>

\* step 5: prisma.conversation.update({ where: { id }, data: { updatedAt } }), return
SendTouch(p) ==
    /\ chatCalls[p].op = "send"
    /\ chatCalls[p].pc = "touch"
    /\ IF FindConversation(chatCalls[p].conv) = NoConversation
       THEN /\ chatCalls' = ChatDone(p, "P2025")
            /\ UNCHANGED conversations
       ELSE /\ conversations' =
                [i \in DOMAIN conversations |->
                    IF conversations[i].id = chatCalls[p].conv
                    THEN [conversations[i] EXCEPT !.updatedAt = now]
                    ELSE conversations[i]]
            /\ chatCalls' = ChatDone(p, "ok")
    /\ UNCHANGED <<now, messages, nextRowId, chatCount, authVars>>

\* chatService.createConversation(userId, title?, firstMessage?): one
\* prisma.conversation.create with the first turn nested in it, so both rows are
\* written in one transaction; the foreign key conversations_userId_fkey rejects
\* an owner that is no account
CreateConversation(p, userId, title, firstMessage) ==
    /\ ChatFree(p)
    /\ chatCount < MaxChatCalls
    /\ chatCount' = chatCount + 1
    /\ LET call == [IdleChat EXCEPT !.op = "createConversation", !.userId = userId]
           conversation ==
                [id |-> nextRowId, userId |-> userId,
                 title |-> IF title # "" THEN title
                           ELSE IF firstMessage # ""
                                THEN generateConversationTitle(firstMessage)
                                ELSE "New Conversation",
                 createdAt |-> now, updatedAt |-> now]
           message == NewMessage(nextRowId + 1, nextRowId, "user", firstMessage, "text",
                                 NoMetadata, now)
       IN IF \A i \in DOMAIN users : users[i].id # userId
          THEN /\ chatCalls' = [chatCalls EXCEPT ![p] =
                                    [call EXCEPT !.pc = "done", !.res = "P2003"]]
               /\ UNCHANGED <<conversations, messages, nextRowId>>
          ELSE /\ conversations' = Append(conversations, conversation)
               /\ messages' = IF firstMessage # "" THEN Append(messages, message)
                              ELSE messages
               /\ nextRowId' = IF firstMessage # "" THEN nextRowId + 2 ELSE nextRowId + 1
               /\ chatCalls' = [chatCalls EXCEPT ![p] =
                    [call EXCEPT !.pc = "done", !.res = "ok", !.conv = nextRowId,
                                 !.message = firstMessage,
                                 !.userMessage = IF firstMessage # "" THEN message
                                                 ELSE NoMessage]]
    /\ UNCHANGED <<now, authVars>>

\* chatService.deleteConversation, step 1: findUnique and the owner check
DeleteConversationStart(p, userId, conversationId) ==
    /\ ChatFree(p)
    /\ chatCount < MaxChatCalls
    /\ chatCount' = chatCount + 1
    /\ LET call == [IdleChat EXCEPT !.op = "deleteConversation", !.userId = userId,
                                    !.conversationId = {conversationId}]
           conversation == FindConversation(conversationId)
       IN chatCalls' = [chatCalls EXCEPT ![p] =
            IF conversation = NoConversation
            THEN [call EXCEPT !.pc = "done", !.res = "NOT_FOUND"]
            ELSE IF conversation.userId # userId
            THEN [call EXCEPT !.pc = "done", !.res = "FORBIDDEN"]
            ELSE [call EXCEPT !.pc = "delete", !.conv = conversationId]]
    /\ UNCHANGED <<now, conversations, messages, nextRowId, authVars>>

\* variant: the conversation row goes, its messages stay
DeleteConversationDeleteNoCascade(p) ==
    /\ chatCalls[p].op = "deleteConversation"
    /\ chatCalls[p].pc = "delete"
    /\ IF FindConversation(chatCalls[p].conv) = NoConversation
       THEN /\ chatCalls' = ChatDone(p, "P2025")
            /\ UNCHANGED conversations
       ELSE LET Kept(c) == c.id # chatCalls[p].conv
            IN /\ conversations' = SelectSeq(conversations, Kept)
               /\ chatCalls' = ChatDone(p, "ok")
    /\ UNCHANGED <<now, messages, nextRowId, chatCount, authVars>>

\* step 2: prisma.conversation.delete; the messages go with it (ON DELETE CASCADE)
DeleteConversationDelete(p) ==
    /\ chatCalls[p].op = "deleteConversation"
    /\ chatCalls[p].pc = "delete"
    /\ IF FindConversation(chatCalls[p].conv) = NoConversation
       THEN /\ chatCalls' = ChatDone(p, "P2025")
            /\ UNCHANGED <<conversations, messages>>
       ELSE LET Kept(c) == c.id # chatCalls[p].conv
                KeptMessage(m) == m.conversationId # chatCalls[p].conv
            IN /\ conversations' = SelectSeq(conversations, Kept)
               /\ messages' = SelectSeq(messages, KeptMessage)
               /\ chatCalls' = ChatDone(p, "ok")
    /\ UNCHANGED <<now, nextRowId, chatCount, authVars>>

\* prisma.message.findUnique({ where: { id }, include: { conversation: true } })
FindMessage(id) ==
    IF \E i \in DOMAIN messages : messages[i].id = id
    THEN messages[CHOOSE i \in DOMAIN messages : messages[i].id = id]
    ELSE NoMessage

\* chatService.deleteMessage, step 1: findUnique and the owner check on the
\* conversation the message belongs to
DeleteMessageStartNoOwnerCheck(p, userId, messageId) ==
    /\ ChatFree(p)
    /\ chatCount < MaxChatCalls
    /\ chatCount' = chatCount + 1
    /\ LET call == [IdleChat EXCEPT !.op = "deleteMessage", !.userId = userId]
           message == FindMessage(messageId)
       IN chatCalls' = [chatCalls EXCEPT ![p] =
            IF message = NoMessage
            THEN [call EXCEPT !.pc = "done", !.res = "NOT_FOUND"]
            ELSE [call EXCEPT !.pc = "delete", !.conv = message.conversationId,
                              !.userMessage = message]]
    /\ UNCHANGED <<now, conversations, messages, nextRowId, authVars>>

DeleteMessageStart(p, userId, messageId) ==
    /\ ChatFree(p)
    /\ chatCount < MaxChatCalls
    /\ chatCount' = chatCount + 1
    /\ LET call == [IdleChat EXCEPT !.op = "deleteMessage", !.userId = userId]
           message == FindMessage(messageId)
       IN chatCalls' = [chatCalls EXCEPT ![p] =
            IF message = NoMessage
            THEN [call EXCEPT !.pc = "done", !.res = "NOT_FOUND"]
            ELSE IF FindConversation(message.conversationId).userId # userId
            THEN [call EXCEPT !.pc = "done", !.res = "FORBIDDEN"]
            ELSE [call EXCEPT !.pc = "delete", !.conv = message.conversationId,
                              !.userMessage = message]]
    /\ UNCHANGED <<now, conversations, messages, nextRowId, authVars>>

\* step 2: prisma.message.delete({ where: { id } })
DeleteMessageDelete(p) ==
    /\ chatCalls[p].op = "deleteMessage"
    /\ chatCalls[p].pc = "delete"
    /\ IF FindMessage(chatCalls[p].userMessage.id) = NoMessage
       THEN /\ chatCalls' = ChatDone(p, "P2025")
            /\ UNCHANGED messages
       ELSE LET Kept(m) == m.id # chatCalls[p].userMessage.id
            IN /\ messages' = SelectSeq(messages, Kept)
               /\ chatCalls' = ChatDone(p, "ok")
    /\ UNCHANGED <<now, conversations, nextRowId, chatCount, authVars>>

\* chatService.getConversation as a call: its response is kept in the slot
GetConversation(p, userId, conversationId) ==
    /\ ChatFree(p)
    /\ chatCount < MaxChatCalls
    /\ chatCount' = chatCount + 1
    /\ \E response \in getConversation(userId, conversationId) :
            chatCalls' = [chatCalls EXCEPT ![p] =
                [IdleChat EXCEPT !.op = "getConversation", !.pc = "done",
                                 !.userId = userId, !.conversationId = {conversationId},
                                 !.res = response.res, !.history = response.messages]]
    /\ UNCHANGED <<now, conversations, messages, nextRowId, authVars>>

\* findMany({ where: { userId }, orderBy: { updatedAt: 'desc' } }): every
\* arrangement of the user's conversations in descending updatedAt order
RECURSIVE OrderByUpdatedAtDesc(_)
OrderByUpdatedAtDesc(rows) ==
    IF rows = {} THEN {<<>>}
    ELSE UNION { { <<c>> \o rest : rest \in OrderByUpdatedAtDesc(rows \ {c}) } :
                 c \in {r \in rows : \A o \in rows : r.updatedAt >= o.updatedAt} }

\* skip: (page - 1) * limit, take: limit
SkipTake(list, page, limit) ==
    LET skip == (page - 1) * limit
        last == IF skip + limit < Len(list) THEN skip + limit ELSE Len(list)
    IN SubSeq(list, skip + 1, last)

\* chatService.getConversationHistory(userId, page, limit) as a call
GetConversationHistory(p, userId, page, limit) ==
    /\ ChatFree(p)
    /\ chatCount < MaxChatCalls
    /\ chatCount' = chatCount + 1
    /\ LET mine == {conversations[i] : i \in {j \in DOMAIN conversations :
                                                conversations[j].userId = userId}}
       IN \E found \in OrderByUpdatedAtDesc(mine) :
            chatCalls' = [chatCalls EXCEPT ![p] =
                [IdleChat EXCEPT !.op = "getConversationHistory", !.pc = "done",
                                 !.userId = userId, !.res = "ok",
                                 !.listed = SkipTake(found, page, limit)]]
    /\ UNCHANGED <<now, conversations, messages, nextRowId, authVars>>

----------------------------------------------------------------------------
\* middleware/auth: authenticate

\* no req.user
NoRequestUser == [userId |-> 0, email |-> "", role |-> ""]

\* authenticate on a request whose Authorization header is "Bearer <token>", or
\* is missing (NoToken): next() with req.user set, or next(error)
Authenticate(token) ==
    /\ LET status == IF token = NoToken THEN "UNAUTHORIZED"
                     ELSE verifyAccessToken(token, now)
       IN probe' = [fn |-> "authenticate", arg |-> token, done |-> TRUE, at |-> now,
                    out |-> [status |-> status,
                             user |-> IF status = "ok"
                                      THEN [userId |-> token.userId, email |-> token.email,
                                            role |-> token.role]
                                      ELSE NoRequestUser]]
    /\ UNCHANGED <<now, users, refreshTokens, nextId, authCalls, wrongRun, conversations,
                   messages, nextRowId, chatCount, chatCalls>>

----------------------------------------------------------------------------
\* Session specification: one account that has logged in at time 0, and
\* refresh and logout calls on the tokens the store holds, interleaved.

\* the refresh token issued by the login at time 0
FirstToken == generateRefreshToken(TokenPayload(SeedUsers[1]), 0)

\* no function call is under study
NoProbe == [fn |-> "none", arg |-> <<>>, out |-> <<>>, done |-> FALSE]

\* the chat tables as prisma/seed.ts leaves them
SeedChat ==
    /\ conversations = SeedConversations
    /\ messages = SeedMessages
    /\ nextRowId = 4
    /\ chatCount = 0
    /\ chatCalls = [p \in Slots |-> IdleChat]

InitSession ==
    /\ now = 0
    /\ users = [SeedUsers EXCEPT ![1].lastLoginAt = {0}]
    /\ refreshTokens = << NewRefreshRow(1, FirstToken, 1, 0) >>
    /\ nextId = 2
    /\ authCalls = [p \in Slots |-> IdleAuth]
    /\ wrongRun = [i \in DOMAIN SeedUsers |-> 0]
    /\ SeedChat
    /\ probe = NoProbe

\* the refresh tokens a client can present: those issued so far, and a forgery
PresentableTokens == {refreshTokens[i].token : i \in DOMAIN refreshTokens} \cup {ForgedToken}

NextSession ==
    \/ Tick
    \/ \E p \in Slots, token \in PresentableTokens : RefreshStart(p, token)
    \/ \E p \in Slots : RefreshRevoke(p)
    \/ \E p \in Slots : RefreshIssue(p)
    \/ \E p \in Slots, token \in PresentableTokens : LogoutStart(p, token)
    \/ \E p \in Slots : LogoutRevoke(p)

SpecSession == InitSession /\ [][NextSession]_vars

----------------------------------------------------------------------------
\* Lockout specification: the seeded account and login calls that run one after
\* the other (a call starts when no other call is in flight).

Emails == {"demo@example.com", "Demo@Example.com", "nobody@example.com"}
Passwords == {"Password123!", "WrongPassword123!"}

InitLockout ==
    /\ now = 0
    /\ users = SeedUsers
    /\ refreshTokens = <<>>
    /\ nextId = 1
    /\ authCalls = [p \in Slots |-> IdleAuth]
    /\ wrongRun = [i \in DOMAIN SeedUsers |-> 0]
    /\ SeedChat
    /\ probe = NoProbe

Quiet == \A q \in Slots : AuthFree(q)

NextLockout ==
    \/ Tick
    \/ \E p \in Slots, email \in Emails, password \in Passwords :
            Quiet /\ LoginStart(p, email, password)
    \/ \E p \in Slots : LoginResetLock(p)
    \/ \E p \in Slots : LoginPassword(p)
    \/ \E p \in Slots : LoginIssue(p)

SpecLockout == InitLockout /\ [][NextLockout]_vars

----------------------------------------------------------------------------
\* Chat specification: the seeded accounts send messages to the seeded
\* conversation, to new conversations and to an unknown id, and delete
\* conversations, interleaved.

InitChat ==
    /\ now = 1
    /\ users = SeedUsers
    /\ refreshTokens = <<>>
    /\ nextId = 1
    /\ authCalls = [p \in Slots |-> IdleAuth]
    /\ wrongRun = [i \in DOMAIN SeedUsers |-> 0]
    /\ SeedChat
    /\ probe = NoProbe

UserIds == {SeedUsers[i].id : i \in DOMAIN SeedUsers}

ChatMessages == {"Could you explain when to use the present perfect tense?"}

\* no id (start a conversation), or the seeded conversation
ConversationIds == {{}, {SeedConversations[1].id}}

NextChat ==
    \/ Tick
    \/ \E p \in Slots, userId \in UserIds, message \in ChatMessages,
          conversationId \in ConversationIds :
            SendStart(p, userId, message, conversationId)
    \/ \E p \in Slots : SendUserMessage(p)
    \/ \E p \in Slots, fetched \in FetchOutcomes : SendGenerate(p, fetched)
    \/ \E p \in Slots : SendAssistantMessage(p)
    \/ \E p \in Slots : SendTouch(p)
    \/ \E p \in Slots, userId \in UserIds, conversationId \in ConversationIds :
            conversationId # {} /\ \E c \in conversationId :
                DeleteConversationStart(p, userId, c)
    \/ \E p \in Slots : DeleteConversationDelete(p)

SpecChat == InitChat /\ [][NextChat]_vars

----------------------------------------------------------------------------
\* Agent specification: one call of agentClient.sendMessage for each way the
\* outbound fetch can end.

Statuses == {200, 201, 299, 300, 404, 500, 503}

Replies == {
    JsUndefined, JsNull, JsNumber("42"), JsString(""),
    JsString("Hello! How can I help?"),
    JsString("Say **has**, not ^have^."),
    JsString(FallbackContent) }

Bodies == {BodyNotJson, BodyNull}
            \cup {BodyObject(r, n) : r \in Replies, n \in {{}, {1}, {3}}}

AgentFetches == {Responded(st, b) : st \in Statuses, b \in Bodies}
                    \cup {NetworkError, TimedOut}

InitAgent ==
    /\ now = 0
    /\ users = SeedUsers
    /\ refreshTokens = <<>>
    /\ nextId = 1
    /\ authCalls = [p \in Slots |-> IdleAuth]
    /\ wrongRun = [i \in DOMAIN SeedUsers |-> 0]
    /\ SeedChat
    /\ \E fetched \in AgentFetches :
            probe = [fn |-> "agentClient.sendMessage", arg |-> fetched,
                     out |-> NoResponse, done |-> FALSE]

\* agentClient.sendMessage returns
AgentReturn ==
    /\ probe.fn = "agentClient.sendMessage"
    /\ ~probe.done
    /\ probe' = [probe EXCEPT !.out = AgentSendMessage(probe.arg), !.done = TRUE]
    /\ UNCHANGED <<now, users, refreshTokens, nextId, authCalls, wrongRun,
                   conversations, messages, nextRowId, chatCount, chatCalls>>

NextAgent == AgentReturn

SpecAgent == InitAgent /\ [][NextAgent]_vars

----------------------------------------------------------------------------
\* Claims on refresh-token rotation (checked under SpecSession)

RefreshEnded(p) == authCalls[p].op = "refresh" /\ authCalls[p].pc = "done"

\* slot p takes up a new refresh call in this step (it ends in the same step when
\* the lookup rejects the token)
StartsRefresh(p) ==
    /\ AuthFree(p)
    /\ authCalls'[p] # authCalls[p]
    /\ authCalls'[p].op = "refresh"

\* the store holds a non-revoked, non-expired record for the token
Trusted(token) ==
    \E i \in DOMAIN refreshTokens :
        /\ refreshTokens[i].token = token
        /\ refreshTokens[i].revokedAt = {}
        /\ ~(refreshTokens[i].expiresAt < now)

\* a refresh of this token has succeeded and its result is on record
Rotated(token) ==
    \E q \in Slots : RefreshEnded(q) /\ authCalls[q].res = "ok" /\ authCalls[q].token = token

\* C1 as stated: a successful refresh(T) returns T' # T, and every later refresh(T)
\* fails with TOKEN_INVALID.
C1_SingleUseInvalid ==
    /\ [](\A q \in Slots : RefreshEnded(q) /\ authCalls[q].res = "ok"
                => authCalls[q].out # authCalls[q].token)
    /\ [][\A p \in Slots : StartsRefresh(p) /\ Rotated(authCalls'[p].token)
                => authCalls'[p].pc = "done" /\ authCalls'[p].res = "TOKEN_INVALID"]_vars

\* C1 amended: a successful refresh(T) returns T' # T, and every later refresh(T)
\* fails: with TOKEN_INVALID while T has not reached its own expiry, and with
\* TOKEN_EXPIRED from then on (the signature check rejects it before the store is
\* consulted).
C1_SingleUse ==
    /\ [](\A q \in Slots : RefreshEnded(q) /\ authCalls[q].res = "ok"
                => authCalls[q].out # authCalls[q].token)
    /\ [][\A p \in Slots : StartsRefresh(p) /\ Rotated(authCalls'[p].token)
                => /\ authCalls'[p].pc = "done"
                   /\ authCalls'[p].res =
                        IF now >= authCalls'[p].token.exp THEN "TOKEN_EXPIRED"
                        ELSE "TOKEN_INVALID"]_vars

\* C1 witness: a token was rotated and a refresh of the same token was refused as
\* invalid
C1_Witness ==
    \E p, q \in Slots :
        /\ p # q
        /\ RefreshEnded(q) /\ authCalls[q].res = "ok"
        /\ authCalls[q].out # authCalls[q].token
        /\ RefreshEnded(p) /\ authCalls[p].token = authCalls[q].token
        /\ authCalls[p].res = "TOKEN_INVALID"

\* C2 as stated: of two refresh calls for the same token, at most one returns a new
\* token pair.
C2_OneWinner ==
    \A p, q \in Slots :
        /\ p # q
        /\ RefreshEnded(p) /\ RefreshEnded(q)
        /\ authCalls[p].token = authCalls[q].token
        => ~(authCalls[p].res = "ok" /\ authCalls[q].res = "ok")

\* C3: a refresh call whose lookup finds no non-revoked, non-expired record for its
\* token ends there with TOKEN_INVALID or TOKEN_EXPIRED; when the token still
\* verifies (in particular after a logout has revoked its record) the error is
\* TOKEN_INVALID.
C3_StoreDecides ==
    [][\A p \in Slots : StartsRefresh(p) /\ ~Trusted(authCalls'[p].token)
            => /\ authCalls'[p].pc = "done"
               /\ authCalls'[p].res \in {"TOKEN_INVALID", "TOKEN_EXPIRED"}
               /\ (verifyRefreshToken(authCalls'[p].token, now) = "ok"
                     => authCalls'[p].res = "TOKEN_INVALID")]_vars

\* C3 witness: a logout has revoked a token that still verifies, and a refresh of
\* that token was refused as invalid
C3_Witness ==
    \E p, q \in Slots :
        /\ authCalls[q].op = "logout" /\ authCalls[q].pc = "done" /\ authCalls[q].revoked
        /\ RefreshEnded(p) /\ authCalls[p].token = authCalls[q].token
        /\ authCalls[p].res = "TOKEN_INVALID"
        /\ verifyRefreshToken(authCalls[p].token, now) = "ok"
        /\ FindRefreshToken(authCalls[p].token).revokedAt # {}

\* C4 as stated: a refresh call that has ended either revoked the presented
\* credential and persisted its replacement, or did neither.
C4_RotationAtomic ==
    \A p \in Slots : RefreshEnded(p) =>
        \/ authCalls[p].revoked /\ authCalls[p].res = "ok" /\ TokenTaken(authCalls[p].out)
        \/ ~authCalls[p].revoked /\ authCalls[p].res # "ok"

----------------------------------------------------------------------------
\* Claims on the lockout state machine (checked under SpecLockout)

LoginEnded(p) == authCalls[p].op = "login" /\ authCalls[p].pc = "done"

\* slot p takes up a new login call in this step
StartsLogin(p) ==
    /\ AuthFree(p)
    /\ authCalls'[p] # authCalls[p]
    /\ authCalls'[p].op = "login"

\* the login call in slot p, at position pc, takes its next step
LoginStep(p, pc) ==
    /\ authCalls[p].op = "login"
    /\ authCalls[p].pc = pc
    /\ authCalls'[p] # authCalls[p]

\* the stored account has a lock that has not elapsed
LockRunning(user) == \E l \in user.lockedUntil : l > now

RightPassword(p) == Compare(authCalls[p].password, authCalls[p].user.password)

\* C5: the attempt that completes a run of MaxLoginAttempts wrong passwords locks
\* the account for AccountLockoutDuration; while that lock runs, a login is
\* rejected with ACCOUNT_LOCKED and a positive remaining time whatever its
\* password; a login that finds the lock elapsed and carries the right password
\* sets loginAttempts to 0 and succeeds.
C5_Lockout ==
    /\ [][\A i \in DOMAIN users :
            wrongRun[i] < MaxLoginAttempts /\ wrongRun'[i] >= MaxLoginAttempts
                => users'[i].lockedUntil = {now + AccountLockoutDuration}]_vars
    /\ [](\A i \in DOMAIN users :
            wrongRun[i] >= MaxLoginAttempts => users[i].lockedUntil # {})
    /\ [][\A p \in Slots :
            LET user == FindUserByEmail(ToLower(authCalls'[p].email))
            IN  /\ StartsLogin(p)
                /\ user # NoUser
                /\ wrongRun[user.id] >= MaxLoginAttempts
                /\ LockRunning(user)
                => /\ authCalls'[p].pc = "done"
                   /\ authCalls'[p].res = "ACCOUNT_LOCKED"
                   /\ authCalls'[p].remaining > 0]_vars
    /\ [][\A p \in Slots, i \in DOMAIN users :
            /\ LoginStep(p, "password")
            /\ authCalls[p].unlocked
            /\ RightPassword(p)
            /\ users[i].id = authCalls[p].user.id
            => /\ users'[i].loginAttempts = 0
               /\ authCalls'[p].pc = "issue"]_vars
    /\ [][\A p \in Slots :
            LoginStep(p, "issue") /\ authCalls[p].unlocked
                => authCalls'[p].res = "ok"]_vars

\* C5 witness: a login with the right password was rejected as locked with a
\* positive remaining time, and a later login with the right password, made after
\* the lock had elapsed, succeeded and left loginAttempts at 0
C5_Witness ==
    \E p, q \in Slots :
        /\ LoginEnded(q) /\ authCalls[q].res = "ACCOUNT_LOCKED"
        /\ authCalls[q].password = "Password123!"
        /\ authCalls[q].remaining > 0
        /\ LoginEnded(p) /\ authCalls[p].res = "ok" /\ authCalls[p].unlocked
        /\ users[1].loginAttempts = 0

\* C6 as stated: a login that finds the lock elapsed is evaluated as if the account
\* had never been locked: with a wrong password it is rejected as
\* INVALID_CREDENTIALS and leaves loginAttempts = 1 and lockedUntil = null; with
\* the right password it goes on to succeed.
C6_ElapsedLockForgotten ==
    [][\A p \in Slots, i \in DOMAIN users :
            /\ LoginStep(p, "password")
            /\ authCalls[p].unlocked
            /\ users[i].id = authCalls[p].user.id
            => IF RightPassword(p)
               THEN authCalls'[p].pc = "issue" /\ users'[i].loginAttempts = 0
               ELSE /\ authCalls'[p].res = "INVALID_CREDENTIALS"
                    /\ users'[i].loginAttempts = 1
                    /\ users'[i].lockedUntil = {}]_vars

\* C7: a login that finds the account locked with lockedUntil in the future ends
\* at the lookup, before any password comparison, with ACCOUNT_LOCKED, whatever
\* its password, and changes neither the account row nor the credential store.
C7_LockedRejects ==
    [][\A p \in Slots :
            LET user == FindUserByEmail(ToLower(authCalls'[p].email))
            IN  StartsLogin(p) /\ user # NoUser /\ LockRunning(user)
                => /\ authCalls'[p].pc = "done"
                   /\ authCalls'[p].res = "ACCOUNT_LOCKED"
                   /\ users' = users
                   /\ refreshTokens' = refreshTokens]_vars

\* C7 witness: while the lock runs, one login with the right and one with a wrong
\* password have both been rejected by the lock check
C7_Witness ==
    \E p, q \in Slots :
        /\ LoginEnded(p) /\ authCalls[p].res = "ACCOUNT_LOCKED"
        /\ authCalls[p].remaining > 0 /\ authCalls[p].password = "Password123!"
        /\ LoginEnded(q) /\ authCalls[q].res = "ACCOUNT_LOCKED"
        /\ authCalls[q].remaining > 0 /\ authCalls[q].password = "WrongPassword123!"
        /\ LockRunning(users[1])
        /\ users[1].loginAttempts = MaxLoginAttempts

\* C8: a wrong-password login on an account that is OPEN with loginAttempts = n
\* stores n + 1; below the maximum it fails with INVALID_CREDENTIALS and leaves
\* lockedUntil null; at the maximum it stores lockedUntil = now + lockout duration
\* and fails with ACCOUNT_LOCKED.
C8_OpenWrongPassword ==
    [][\A p \in Slots, i \in DOMAIN users :
            /\ LoginStep(p, "password")
            /\ ~authCalls[p].unlocked
            /\ ~RightPassword(p)
            /\ users[i].id = authCalls[p].user.id
            /\ users[i].lockedUntil = {}
            /\ users[i].loginAttempts < MaxLoginAttempts
            => /\ users'[i].loginAttempts = users[i].loginAttempts + 1
               /\ IF users[i].loginAttempts + 1 < MaxLoginAttempts
                  THEN /\ authCalls'[p].res = "INVALID_CREDENTIALS"
                       /\ users'[i].lockedUntil = {}
                  ELSE /\ authCalls'[p].res = "ACCOUNT_LOCKED"
                       /\ users'[i].lockedUntil = {now + AccountLockoutDuration}]_vars

\* C8 witness: one wrong password was answered INVALID_CREDENTIALS, and the wrong
\* password that reached the maximum was answered ACCOUNT_LOCKED by
\* handleFailedLogin and locked the account
C8_Witness ==
    \E p, q \in Slots :
        /\ LoginEnded(p) /\ authCalls[p].res = "INVALID_CREDENTIALS"
        /\ authCalls[p].email = "demo@example.com"
        /\ LoginEnded(q) /\ authCalls[q].res = "ACCOUNT_LOCKED"
        /\ authCalls[q].remaining = 0
        /\ users[1].loginAttempts = MaxLoginAttempts
        /\ users[1].lockedUntil = {now + AccountLockoutDuration}

\* C9 as stated: a successful login sets loginAttempts = 0 and lockedUntil = null,
\* and an account becomes locked only when the wrong-password attempts since its
\* last successful login or lock expiry reach the maximum.
C9_OnlyConsecutiveCount ==
    /\ [][\A p \in Slots, i \in DOMAIN users :
            /\ LoginStep(p, "password")
            /\ RightPassword(p)
            /\ users[i].id = authCalls[p].user.id
            => users'[i].loginAttempts = 0 /\ users'[i].lockedUntil = {}]_vars
    /\ [][\A i \in DOMAIN users :
            /\ ~LockRunning(users[i])
            /\ \E l \in users'[i].lockedUntil : l > now'
            => wrongRun'[i] >= MaxLoginAttempts]_vars

----------------------------------------------------------------------------
\* Claims on the chat specification

\* a sendMessage call that has returned and whose generation call failed
FailedSendEnded(p) ==
    /\ chatCalls[p].op = "send"
    /\ chatCalls[p].pc = "done"
    /\ chatCalls[p].res = "ok"
    /\ chatCalls[p].failed

Stored(m) == \E i \in DOMAIN messages : messages[i] = m

\* both turns of the call are still in the store (nothing has deleted them)
TurnsStored(p) == Stored(chatCalls[p].userMessage) /\ Stored(chatCalls[p].assistantMessage)

IsFallbackTurn(m) == m.role = "assistant" /\ m.content = FallbackContent

Position(ordered, m) == CHOOSE i \in DOMAIN ordered : ordered[i] = m

\* no other turn of the conversation can come between the call's two turns
Apart(p) ==
    LET u == chatCalls[p].userMessage
        a == chatCalls[p].assistantMessage
    IN /\ u.timestamp < a.timestamp
       /\ \A m \in InConversation(chatCalls[p].conv) \ {u, a} :
            m.timestamp < u.timestamp \/ m.timestamp > a.timestamp

\* C10 as stated: for every sendMessage call whose generation failed, every
\* later getConversation returns the user's turn and the turn immediately
\* after it is an assistant turn carrying the fallback content, whatever other
\* sendMessage calls on the conversation are in flight.
C10_FallbackImmediatelyAfter ==
    \A p \in Slots :
        FailedSendEnded(p) /\ TurnsStored(p) =>
            \A r \in getConversation(chatCalls[p].userId, chatCalls[p].conv) :
                /\ r.res = "ok"
                /\ \E i \in DOMAIN r.messages :
                    /\ r.messages[i] = chatCalls[p].userMessage
                    /\ i + 1 \in DOMAIN r.messages
                    /\ IsFallbackTurn(r.messages[i + 1])

\* what does hold of a sendMessage call whose generation failed and whose turns
\* have not been deleted: getConversation returns the user's turn and the call's
\* assistant turn, which carries the fallback content with format text and a zero
\* token count; the assistant turn is never placed before the user turn when its
\* timestamp is later, and it is immediately after the user turn when its
\* timestamp is later and no other turn of the conversation has a timestamp
\* between the two (inclusive).
FallbackDurable ==
    \A p \in Slots :
        FailedSendEnded(p) /\ TurnsStored(p) =>
            LET u == chatCalls[p].userMessage
                a == chatCalls[p].assistantMessage
            IN /\ u.role = "user" /\ u.content = chatCalls[p].message
               /\ IsFallbackTurn(a) /\ a.format = "text" /\ a.metadata.tokens = {0}
               /\ \A r \in getConversation(chatCalls[p].userId, chatCalls[p].conv) :
                    /\ r.res = "ok"
                    /\ \E i \in DOMAIN r.messages : r.messages[i] = u
                    /\ \E j \in DOMAIN r.messages : r.messages[j] = a
                    /\ u.timestamp < a.timestamp =>
                            Position(r.messages, u) < Position(r.messages, a)
                    /\ Apart(p) => Position(r.messages, a) = Position(r.messages, u) + 1

\* a failed send has returned in a conversation that holds other turns too, and
\* its fallback turn is immediately after its user turn
FallbackDurableReached ==
    \E p \in Slots :
        /\ FailedSendEnded(p) /\ TurnsStored(p) /\ Apart(p)
        /\ chatCalls[p].conv = SeedConversations[1].id
        /\ Cardinality(InConversation(chatCalls[p].conv)) > 2
        /\ \A r \in getConversation(chatCalls[p].userId, chatCalls[p].conv) :
                \E i \in DOMAIN r.messages :
                    /\ r.messages[i] = chatCalls[p].userMessage
                    /\ i + 1 \in DOMAIN r.messages
                    /\ r.messages[i + 1] = chatCalls[p].assistantMessage

\* a sendMessage call that has ended
SendEnded(p) == chatCalls[p].op = "send" /\ chatCalls[p].pc = "done"

\* C11 as stated: the only errors a sendMessage call ends with are NOT_FOUND and
\* FORBIDDEN, raised by the resolution step before any turn is appended; once
\* resolution has succeeded the call returns successfully, under every
\* interleaving (a deleteConversation of the same conversation included).
C11_OnlyResolutionErrors ==
    \A p \in Slots :
        SendEnded(p) =>
            /\ chatCalls[p].res \in {"ok", "NOT_FOUND", "FORBIDDEN"}
            /\ chatCalls[p].res \in {"NOT_FOUND", "FORBIDDEN"}
                    => chatCalls[p].userMessage = NoMessage

----------------------------------------------------------------------------
\* Claims on the generation adapter (checked under SpecAgent)

AgentReturned == probe.fn = "agentClient.sendMessage" /\ probe.done

\* a 2xx response whose body is a JSON object with a string `response` member
WellFormed(fetched) ==
    /\ fetched.kind = "response"
    /\ ResponseOk(fetched)
    /\ fetched.body.json = "object"
    /\ fetched.body.response.type = "string"

IsFallbackReply(reply) ==
    /\ reply.content = FallbackContent
    /\ reply.contentType = "string"
    /\ reply.format = "text"
    /\ reply.metadata.tokens = {0}

\* C12 as stated: for every outcome of the outbound call that is not a
\* well-formed 2xx response the adapter returns the fallback reply (format text,
\* zero tokens), and what it returns for a well-formed 2xx response is the
\* response's own string.
C12_FallbackUnlessWellFormed ==
    AgentReturned =>
        IF WellFormed(probe.arg)
        THEN /\ probe.out.content = probe.arg.body.response.str
             /\ probe.out.contentType = "string"
        ELSE IsFallbackReply(probe.out)

----------------------------------------------------------------------------
\* Ownership specification: both seeded accounts read, extend and delete the
\* conversations and messages the store holds, whoever owns them, interleaved.
\* No call of the chat service reads the clock to decide, so the clock stands.

\* the ids of the conversations in the store, and one that is in no store
KnownConversationIds == {conversations[i].id : i \in DOMAIN conversations} \cup {0}

\* the ids of the messages in the store, and one that is in no store
KnownMessageIds == {messages[i].id : i \in DOMAIN messages} \cup {0}

Pages == {1, 2}
Limits == {1, 20}

NextOwnership ==
    \/ \E p \in Slots, userId \in UserIds, message \in ChatMessages,
          conversationId \in {{}} \cup {{c} : c \in KnownConversationIds} :
            SendStart(p, userId, message, conversationId)
    \/ \E p \in Slots : SendUserMessage(p)
    \/ \E p \in Slots, fetched \in FetchOutcomes : SendGenerate(p, fetched)
    \/ \E p \in Slots : SendAssistantMessage(p)
    \/ \E p \in Slots : SendTouch(p)
    \/ \E p \in Slots, userId \in UserIds, conversationId \in KnownConversationIds :
            DeleteConversationStart(p, userId, conversationId)
    \/ \E p \in Slots : DeleteConversationDelete(p)
    \/ \E p \in Slots, userId \in UserIds, messageId \in KnownMessageIds :
            DeleteMessageStart(p, userId, messageId)
    \/ \E p \in Slots : DeleteMessageDelete(p)
    \/ \E p \in Slots, userId \in UserIds, conversationId \in KnownConversationIds :
            GetConversation(p, userId, conversationId)
    \/ \E p \in Slots, userId \in UserIds, page \in Pages, limit \in Limits :
            GetConversationHistory(p, userId, page, limit)

SpecOwnership == InitChat /\ [][NextOwnership]_vars

----------------------------------------------------------------------------
\* Claims on ownership (checked under SpecOwnership)

\* the conversation is in the store and belongs to another account
Foreign(userId, conversationId) ==
    /\ FindConversation(conversationId) # NoConversation
    /\ FindConversation(conversationId).userId # userId

\* the message is in the store, in a conversation of another account
ForeignMessage(userId, messageId) ==
    /\ FindMessage(messageId) # NoMessage
    /\ Foreign(userId, FindMessage(messageId).conversationId)

\* the call slot p takes up in this step ends in it with FORBIDDEN, carries no
\* row, no turn and no generated reply, and the tables stay as they are
Refused(p) ==
    /\ chatCalls'[p].pc = "done"
    /\ chatCalls'[p].res = "FORBIDDEN"
    /\ chatCalls'[p].history = <<>>
    /\ chatCalls'[p].listed = <<>>
    /\ chatCalls'[p].userMessage = NoMessage
    /\ chatCalls'[p].assistantMessage = NoMessage
    /\ chatCalls'[p].agentResponse = NoResponse
    /\ conversations' = conversations
    /\ messages' = messages

\* C13: for a conversation c in the store owned by B and a caller A # B,
\* getConversation(A, c), sendMessage by A on c, deleteConversation(A, c) and
\* deleteMessage by A on a turn of c each end with FORBIDDEN at their first step
\* (so before any generation call), return nothing of c and change neither the
\* conversations nor the messages; getConversationHistory(A) lists only
\* conversations of A.
C13_OwnershipIsolation ==
    [][\A p \in Slots, userId \in UserIds :
        /\ \A conversationId \in KnownConversationIds :
              Foreign(userId, conversationId) =>
                /\ GetConversation(p, userId, conversationId) => Refused(p)
                /\ DeleteConversationStart(p, userId, conversationId) => Refused(p)
                /\ \A message \in ChatMessages :
                      SendStart(p, userId, message, {conversationId}) => Refused(p)
        /\ \A messageId \in KnownMessageIds :
              ForeignMessage(userId, messageId) =>
                (DeleteMessageStart(p, userId, messageId) => Refused(p))
        /\ \A page \in Pages, limit \in Limits :
              GetConversationHistory(p, userId, page, limit) =>
                \A i \in DOMAIN chatCalls'[p].listed :
                    chatCalls'[p].listed[i].userId = userId
      ]_vars

\* the admin account has been refused a turn of the demo account's conversation
\* and a message on it, and the conversation still holds its turns
C13_Witness ==
    /\ Foreign(2, 1)
    /\ Cardinality(InConversation(1)) >= 2
    /\ \E p, q \in Slots :
        /\ chatCalls[p].op = "deleteMessage"
        /\ chatCalls[p].userId = 2
        /\ chatCalls[p].res = "FORBIDDEN"
        /\ chatCalls[q].op = "send"
        /\ chatCalls[q].userId = 2
        /\ chatCalls[q].conversationId = {1}
        /\ chatCalls[q].res = "FORBIDDEN"

----------------------------------------------------------------------------
\* Claims on logout (checked under SpecSession)

LogoutEnded(p) == authCalls[p].op = "logout" /\ authCalls[p].pc = "done"

\* the store holds a record for the token and it is not revoked
Revocable(token) ==
    FindRefreshToken(token) # NoRow /\ FindRefreshToken(token).revokedAt = {}

\* C14 as stated: no logout ends with an error, and once a logout of T has
\* revoked its record, a further logout(T) leaves the credential store exactly
\* as it was (revokedAt is not rewritten).
C14_LogoutIdempotent ==
    [][/\ \A p \in Slots :
            authCalls'[p].op = "logout" => authCalls'[p].res \in {"", "ok"}
       /\ \A p, q \in Slots :
            ( /\ LogoutEnded(q)
              /\ authCalls[q].revoked
              /\ authCalls[p].op = "logout"
              /\ authCalls[p].token = authCalls[q].token
              /\ LogoutRevoke(p) ) => refreshTokens' = refreshTokens
      ]_vars

\* C14 (amended): no logout ends with an error; a logout whose lookup finds no
\* record, or a revoked one, ends at once and leaves the credential store exactly
\* as it was; a logout whose lookup finds a non-revoked record sets revokedAt of
\* that record, and of no other, to the time of its update.
C14_LogoutSettled ==
    [][/\ \A p \in Slots :
            authCalls'[p].op = "logout" => authCalls'[p].res \in {"", "ok"}
       /\ \A p \in Slots, token \in PresentableTokens :
            LogoutStart(p, token) =>
                /\ refreshTokens' = refreshTokens
                /\ IF Revocable(token)
                   THEN authCalls'[p].pc = "revoke"
                   ELSE authCalls'[p].pc = "done" /\ authCalls'[p].res = "ok"
       /\ \A p \in Slots :
            (authCalls[p].op = "logout" /\ LogoutRevoke(p)) =>
                /\ authCalls'[p].pc = "done"
                /\ authCalls'[p].res = "ok"
                /\ \A i \in DOMAIN refreshTokens :
                      refreshTokens'[i] =
                        IF refreshTokens[i].id = authCalls[p].row.id
                        THEN [refreshTokens[i] EXCEPT !.revokedAt = {now}]
                        ELSE refreshTokens[i]
      ]_vars

\* a logout of the first token has revoked it, and a further logout of the same
\* token, begun after that, has ended without touching the record
C14_Witness ==
    \E p, q \in Slots :
        /\ LogoutEnded(q) /\ authCalls[q].revoked /\ authCalls[q].token = FirstToken
        /\ LogoutEnded(p) /\ ~authCalls[p].revoked /\ authCalls[p].token = FirstToken
        /\ authCalls[p].res = "ok"
        /\ FindRefreshToken(FirstToken).revokedAt # {}

----------------------------------------------------------------------------
\* Login specification: login calls on the seeded account and on an unknown
\* handle that arrive within one second of the clock, interleaved (a call may
\* start while another is in flight).  No lock elapses within that second.

NextLogin ==
    \/ \E p \in Slots, email \in Emails, password \in Passwords :
            LoginStart(p, email, password)
    \/ \E p \in Slots : LoginPassword(p)
    \/ \E p \in Slots : LoginIssue(p)

SpecLogin == InitLockout /\ [][NextLogin]_vars

----------------------------------------------------------------------------
\* Claims on login (checked under SpecLogin)

\* the degree of concurrency: the login calls that can be in flight at a time
Concurrency == Cardinality(Slots)

\* C15: the stored loginAttempts of an account is lower than the number of
\* wrong-password attempts on it since its last reset by at most the number of
\* login calls that can be in flight at the same time.
C15_UndercountBounded ==
    \A i \in DOMAIN users : wrongRun[users[i].id] - users[i].loginAttempts <= Concurrency


\* C16: a login that fails on a wrong password is answered exactly like a login
\* for an unknown handle, with INVALID_CREDENTIALS and nothing else, so the
\* answers to a run of failing logins do not tell whether the account exists.
C16_NoEnumeration ==
    \A p \in Slots :
        LET user == FindUserByEmail(ToLower(authCalls[p].email))
        IN ( /\ LoginEnded(p)
             /\ (user = NoUser \/ ~Compare(authCalls[p].password, user.password)) )
           => /\ authCalls[p].res = "INVALID_CREDENTIALS"
              /\ authCalls[p].remaining = 0

\* C17: a login with the right password on an account that is not locked ends
\* with success and adds exactly one non-revoked credential record for the
\* account, and every record stored before stays as it was.
C17_LoginsAdditive ==
    [][\A p \in Slots :
        ( /\ authCalls[p].op = "login"
          /\ authCalls[p].pc = "issue"
          /\ ~LockRunning(UserById(authCalls[p].user.id))
          /\ LoginIssue(p) )
        => /\ authCalls'[p].res = "ok"
           /\ Len(refreshTokens') = Len(refreshTokens) + 1
           /\ SubSeq(refreshTokens', 1, Len(refreshTokens)) = refreshTokens
           /\ refreshTokens'[Len(refreshTokens')].userId = authCalls[p].user.id
           /\ refreshTokens'[Len(refreshTokens')].revokedAt = {}
           /\ refreshTokens'[Len(refreshTokens')].token = authCalls'[p].out
      ]_vars

----------------------------------------------------------------------------
\* Register specification: register calls for a new handle and for the handle
\* of a seeded account, in either spelling, interleaved.

RegisterEmails ==
    {"new@example.com", "New@Example.com", "demo@example.com", "Demo@Example.com"}

NextRegister ==
    \/ Tick
    \/ \E p \in Slots, email \in RegisterEmails, password \in Passwords :
            RegisterStart(p, email, password)
    \/ \E p \in Slots : RegisterCreate(p)
    \/ \E p \in Slots : RegisterIssue(p)

SpecRegister == InitLockout /\ [][NextRegister]_vars

----------------------------------------------------------------------------
\* Claims on register (checked under SpecRegister)

RegisterEnded(p) == authCalls[p].op = "register" /\ authCalls[p].pc = "done"

\* the accounts whose handle is the lower-cased form of the email
Accounts(email) == {i \in DOMAIN users : users[i].email = ToLower(email)}

\* the register call in slot p ends in this step
EndsRegister(p) ==
    /\ authCalls[p].op = "register"
    /\ authCalls[p].pc # "done"
    /\ authCalls'[p].pc = "done"

\* C18: a register call that ends while an account with the lower-cased handle
\* exists, and that did not create it, ends with a Conflict (409) and leaves
\* accounts and credentials as they are; and in every state every stored handle
\* is in lower case and belongs to one account only.
C18_HandleUnique ==
    /\ [](\A i, j \in DOMAIN users :
            /\ users[i].email = ToLower(users[i].email)
            /\ users[i].email = users[j].email => i = j)
    /\ [][\A p \in Slots, email \in RegisterEmails, password \in Passwords :
            /\ (RegisterStart(p, email, password) /\ Accounts(email) # {}) =>
                    /\ authCalls'[p].pc = "done"
                    /\ ErrorStatus(authCalls'[p].res) = 409
                    /\ users' = users
                    /\ refreshTokens' = refreshTokens
            /\ ( /\ authCalls[p].op = "register"
                 /\ authCalls[p].pc = "create"
                 /\ Accounts(authCalls[p].email) # {}
                 /\ RegisterCreate(p) ) =>
                    /\ authCalls'[p].pc = "done"
                    /\ ErrorStatus(authCalls'[p].res) = 409
                    /\ users' = users
                    /\ refreshTokens' = refreshTokens
       ]_vars

\* two register calls for the same handle in two spellings have both passed the
\* lookup; one has created the account and succeeded, the other has ended with
\* the 409 of the unique index
C18_Witness ==
    \E p, q \in Slots :
        /\ RegisterEnded(p) /\ authCalls[p].res = "ok"
        /\ RegisterEnded(q) /\ authCalls[q].res = "P2002"
        /\ authCalls[p].email # authCalls[q].email
        /\ ToLower(authCalls[p].email) = ToLower(authCalls[q].email)
        /\ Cardinality(Accounts(authCalls[q].email)) = 1

\* the credential records of an account
Credentials(userId) == {i \in DOMAIN refreshTokens : refreshTokens[i].userId = userId}

\* C19: a register call that ends with success has created exactly one account,
\* with the lower-cased handle and the role 'user', and exactly one credential
\* record for it, non-revoked and holding the returned refresh token; the
\* returned tokens verify under the access key and the refresh key respectively
\* and carry the id, the handle and the role of that account.
C19_RegisterCreatesOne ==
    [][\A p \in Slots :
        (EndsRegister(p) /\ authCalls'[p].res = "ok") =>
            LET out == authCalls'[p].out
                access == authCalls'[p].access
                account == FindUserByEmail(ToLower(authCalls[p].email))
            IN /\ Cardinality(Accounts(authCalls[p].email)) = 1
               /\ account.role = "user"
               /\ users' = users
               /\ Cardinality(Credentials(account.id)) = 0
               /\ Len(refreshTokens') = Len(refreshTokens) + 1
               /\ SubSeq(refreshTokens', 1, Len(refreshTokens)) = refreshTokens
               /\ refreshTokens'[Len(refreshTokens')].userId = account.id
               /\ refreshTokens'[Len(refreshTokens')].token = out
               /\ refreshTokens'[Len(refreshTokens')].revokedAt = {}
               /\ verifyAccessToken(access, now) = "ok"
               /\ verifyRefreshToken(out, now) = "ok"
               /\ access # out
               /\ \A token \in {access, out} :
                    /\ token.userId = account.id
                    /\ token.email = account.email
                    /\ token.role = account.role
      ]_vars

\* a register call for a handle given in mixed case has succeeded
C19_Witness ==
    \E p \in Slots :
        /\ RegisterEnded(p) /\ authCalls[p].res = "ok"
        /\ authCalls[p].email = "New@Example.com"
        /\ authCalls[p].out.email = "new@example.com"
        /\ Cardinality(Credentials(authCalls[p].out.userId)) = 1

----------------------------------------------------------------------------
\* Configuration specification: the server is started under one environment,
\* issues a token pair to the demo account, and each token of the pair is then
\* presented where the other kind is expected.

\* jwt.sign(payload, secret, { expiresIn }) and jwt.verify(token, secret)
jwtSign(payload, secret, expiresIn, t) ==
    [secret |-> secret, userId |-> payload.userId, email |-> payload.email,
     role |-> payload.role, iat |-> t, exp |-> t + expiresIn]

jwtVerify(token, secret, t) ==
    IF token.secret # secret THEN "TOKEN_INVALID"
    ELSE IF t >= token.exp THEN "TOKEN_EXPIRED"
    ELSE "ok"

\* process.env: "" is a variable that is not set
AccessSecretEnvs == {"", "your-secret", "your-strong-random-secret-here", AccessSecret}
RefreshSecretEnvs ==
    {"", "your-secret", "your-different-strong-random-secret-here", RefreshSecret}
Environments ==
    [JWT_ACCESS_SECRET : AccessSecretEnvs, JWT_REFRESH_SECRET : RefreshSecretEnvs,
     DATABASE_URL : {"", "postgresql://localhost:5432/english_tutor"},
     NODE_ENV : {"", "production"}, BCRYPT_ROUNDS : {{}, {10}}]

\* config/index.ts: process.env.X || default
Config(env) ==
    [env |-> IF env.NODE_ENV = "" THEN "development" ELSE env.NODE_ENV,
     accessSecret |-> IF env.JWT_ACCESS_SECRET = "" THEN AccessSecret
                      ELSE env.JWT_ACCESS_SECRET,
     refreshSecret |-> IF env.JWT_REFRESH_SECRET = "" THEN RefreshSecret
                       ELSE env.JWT_REFRESH_SECRET,
     bcryptRounds |-> IF env.BCRYPT_ROUNDS = {} THEN 12
                      ELSE CHOOSE n \in env.BCRYPT_ROUNDS : TRUE]

\* validateConfig returns (TRUE) or throws (FALSE)
validateConfig(env) ==
    /\ env.DATABASE_URL # ""
    /\ env.JWT_ACCESS_SECRET # ""
    /\ env.JWT_REFRESH_SECRET # ""
    /\ Config(env).env = "production" =>
            /\ Config(env).accessSecret # AccessSecret
            /\ Config(env).refreshSecret # RefreshSecret
            /\ ~(Config(env).bcryptRounds < 12)

NoVerdicts == [asAccess |-> "", asRefresh |-> ""]

InitConfig ==
    /\ now = 0
    /\ users = SeedUsers
    /\ refreshTokens = <<>>
    /\ nextId = 1
    /\ authCalls = [p \in Slots |-> IdleAuth]
    /\ wrongRun = [i \in DOMAIN SeedUsers |-> 0]
    /\ SeedChat
    /\ \E env \in Environments :
            probe = [fn |-> "startServer", arg |-> env, pc |-> "boot",
                     accessToken |-> NoToken, refreshToken |-> NoToken,
                     out |-> NoVerdicts, done |-> FALSE]

authStore == <<users, refreshTokens, nextId, authCalls, wrongRun>>
chatStore == <<conversations, messages, nextRowId, chatCount, chatCalls>>

\* startServer: validateConfig, then the server listens, or the process exits
StartServer ==
    /\ probe.fn = "startServer"
    /\ probe.pc = "boot"
    /\ probe' = [probe EXCEPT !.pc = IF validateConfig(probe.arg) THEN "running"
                                     ELSE "exited"]
    /\ UNCHANGED <<now, authStore, chatStore>>

\* a login of the demo account under the configuration: generateAccessToken,
\* generateRefreshToken and the refresh_tokens row
ConfigIssue ==
    /\ probe.fn = "startServer"
    /\ probe.pc = "running"
    /\ probe.refreshToken = NoToken
    /\ LET payload == TokenPayload(SeedUsers[1])
           accessToken == jwtSign(payload, Config(probe.arg).accessSecret,
                                  AccessExpiry, now)
           refreshToken == jwtSign(payload, Config(probe.arg).refreshSecret,
                                   RefreshExpiry, now)
       IN /\ probe' = [probe EXCEPT !.accessToken = accessToken,
                                    !.refreshToken = refreshToken]
          /\ refreshTokens' = Append(refreshTokens,
                                NewRefreshRow(nextId, refreshToken, SeedUsers[1].id, now))
          /\ nextId' = nextId + 1
    /\ UNCHANGED <<now, users, authCalls, wrongRun, chatStore>>

\* middleware/auth authenticate: the refresh token as Bearer token
PresentRefreshAsAccess ==
    /\ probe.fn = "startServer"
    /\ probe.refreshToken # NoToken
    /\ probe.out.asAccess = ""
    /\ probe' = [probe EXCEPT !.out.asAccess =
                    jwtVerify(probe.refreshToken, Config(probe.arg).accessSecret, now)]
    /\ UNCHANGED <<now, authStore, chatStore>>

\* refreshAccessToken up to its checks: verifyRefreshToken, the lookup of the
\* token in the store, revokedAt, expiresAt
PresentAccessAsRefresh ==
    /\ probe.fn = "startServer"
    /\ probe.refreshToken # NoToken
    /\ probe.out.asRefresh = ""
    /\ LET verified == jwtVerify(probe.accessToken, Config(probe.arg).refreshSecret, now)
           row == FindRefreshToken(probe.accessToken)
       IN probe' = [probe EXCEPT !.out.asRefresh =
                        IF verified # "ok" THEN verified
                        ELSE IF row = NoRow THEN "TOKEN_INVALID"
                        ELSE IF row.revokedAt # {} THEN "TOKEN_INVALID"
                        ELSE IF row.expiresAt < now THEN "TOKEN_EXPIRED"
                        ELSE "ok"]
    /\ UNCHANGED <<now, authStore, chatStore>>

NextConfig ==
    \/ Tick
    \/ StartServer
    \/ ConfigIssue
    \/ PresentRefreshAsAccess
    \/ PresentAccessAsRefresh

SpecConfig == InitConfig /\ [][NextConfig]_vars

\* C20: under every configuration the server starts with, a token issued as a
\* refresh token is rejected where an access token is verified, and a token
\* issued as an access token is rejected by refresh.
C20_NotInterchangeable ==
    (probe.fn = "startServer" /\ probe.pc = "running")
        => probe.out.asAccess # "ok" /\ probe.out.asRefresh # "ok"

----------------------------------------------------------------------------
\* Verification specification: a token is issued to a seeded account with one
\* of the two keys (or a string that is no token of the service is made up),
\* time passes, and the token is handed to one of the two verify functions.

\* the DecodedToken that jwt.verify returns
DecodedToken(token) ==
    [userId |-> token.userId, email |-> token.email, role |-> token.role,
     iat |-> token.iat, exp |-> token.exp]

InitVerify ==
    /\ now = 0
    /\ users = SeedUsers
    /\ refreshTokens = <<>>
    /\ nextId = 1
    /\ authCalls = [p \in Slots |-> IdleAuth]
    /\ wrongRun = [i \in DOMAIN SeedUsers |-> 0]
    /\ SeedChat
    /\ probe = [fn |-> "verify", pc |-> "issue", arg |-> NoToken, claims |-> <<>>,
                as |-> "", at |-> 0, out |-> <<>>, done |-> FALSE]

\* generateAccessToken / generateRefreshToken for the account, or a forgery
VerifyIssue(kind, user) ==
    /\ probe.fn = "verify"
    /\ probe.pc = "issue"
    /\ probe' = [probe EXCEPT
            !.pc = "issued",
            !.claims = TokenPayload(user),
            !.arg = CASE kind = "access" -> generateAccessToken(TokenPayload(user), now)
                      [] kind = "refresh" -> generateRefreshToken(TokenPayload(user), now)
                      [] OTHER -> ForgedToken]
    /\ UNCHANGED <<now, authStore, chatStore>>

\* verifyAccessToken(token) or verifyRefreshToken(token): the error code thrown,
\* or the decoded token returned
VerifyReturn(as) ==
    /\ probe.fn = "verify"
    /\ probe.pc = "issued"
    /\ LET status == IF as = "access" THEN verifyAccessToken(probe.arg, now)
                     ELSE verifyRefreshToken(probe.arg, now)
       IN probe' = [probe EXCEPT
            !.pc = "verified", !.as = as, !.at = now, !.done = TRUE,
            !.out = [status |-> status,
                     decoded |-> IF status = "ok" THEN DecodedToken(probe.arg)
                                 ELSE DecodedToken(NoToken)]]
    /\ UNCHANGED <<now, authStore, chatStore>>

NextVerify ==
    \/ Tick
    \/ \E kind \in {"access", "refresh", "forged"}, i \in DOMAIN SeedUsers :
            VerifyIssue(kind, SeedUsers[i])
    \/ \E as \in {"access", "refresh"} : VerifyReturn(as)

SpecVerify == InitVerify /\ [][NextVerify]_vars

\* the key the function verifies with
KeyOf(as) == IF as = "access" THEN AccessSecret ELSE RefreshSecret

\* C21: verifying a correctly signed token at or after its expiry fails with
\* TOKEN_EXPIRED; verifying a token that is malformed or signed with another key
\* fails with TOKEN_INVALID, expired or not; a verification that succeeds returns
\* the user id, email and role the token was issued with.
C21_VerifyKinds ==
    (probe.fn = "verify" /\ probe.done) =>
        LET signed == probe.arg.secret = KeyOf(probe.as)
            expired == probe.at >= probe.arg.exp
        IN /\ (signed /\ expired) => probe.out.status = "TOKEN_EXPIRED"
           /\ ~signed => probe.out.status = "TOKEN_INVALID"
           /\ (signed /\ ~expired) =>
                /\ probe.out.status = "ok"
                /\ probe.out.decoded.userId = probe.claims.userId
                /\ probe.out.decoded.email = probe.claims.email
                /\ probe.out.decoded.role = probe.claims.role

\* an access token has been verified after its expiry, by verifyAccessToken
C21_Witness ==
    /\ probe.fn = "verify" /\ probe.done
    /\ probe.as = "access"
    /\ probe.arg.secret = AccessSecret
    /\ probe.at >= probe.arg.exp
    /\ probe.out.status = "TOKEN_EXPIRED"

----------------------------------------------------------------------------
\* Claims on the rejections of refresh (checked under SpecSession)

\* the refresh call slot p takes up in this step is rejected with the code, with
\* no token issued and the credential store as it was
RefreshRejected(p, code) ==
    /\ authCalls'[p].pc = "done"
    /\ authCalls'[p].res = code
    /\ authCalls'[p].out = NoToken
    /\ authCalls'[p].access = NoToken
    /\ refreshTokens' = refreshTokens
    /\ nextId' = nextId

\* C22 as stated: refresh(T) fails with TOKEN_INVALID when T is not signed with
\* the refresh key, has no record or has a revoked record, and with TOKEN_EXPIRED
\* when its non-revoked record is past expiresAt or T itself has expired; the
\* store is left as it was and nothing is issued.
C22_RefreshErrors ==
    [][\A p \in Slots : StartsRefresh(p) =>
        LET token == authCalls'[p].token
            row == FindRefreshToken(token)
        IN /\ ( \/ token.secret # RefreshSecret
                \/ row = NoRow
                \/ row.revokedAt # {} ) => RefreshRejected(p, "TOKEN_INVALID")
           /\ ( /\ token.secret = RefreshSecret
                /\ row # NoRow
                /\ row.revokedAt = {}
                /\ (row.expiresAt < now \/ now >= token.exp) )
                    => RefreshRejected(p, "TOKEN_EXPIRED")
      ]_vars

\* C22 (amended): refresh(T) checks in this order and stops at the first that
\* fails: T is not signed with the refresh key (TOKEN_INVALID); T has reached its
\* own expiry (TOKEN_EXPIRED, whatever the store holds); the store has no record
\* of T, or a revoked one (TOKEN_INVALID); the record is past expiresAt
\* (TOKEN_EXPIRED).  A refresh rejected by one of them leaves the credential
\* store as it was and issues no token.
C22_RefreshRejects ==
    [][\A p \in Slots : StartsRefresh(p) =>
        LET token == authCalls'[p].token
            row == FindRefreshToken(token)
        IN IF token.secret # RefreshSecret THEN RefreshRejected(p, "TOKEN_INVALID")
           ELSE IF now >= token.exp THEN RefreshRejected(p, "TOKEN_EXPIRED")
           ELSE IF row = NoRow \/ row.revokedAt # {}
                THEN RefreshRejected(p, "TOKEN_INVALID")
           ELSE IF row.expiresAt < now THEN RefreshRejected(p, "TOKEN_EXPIRED")
           ELSE authCalls'[p].pc = "revoke"
      ]_vars

\* a refresh of a token whose record is revoked and whose own expiry has passed
\* was rejected as expired
C22_Witness ==
    \E p \in Slots :
        /\ RefreshEnded(p)
        /\ authCalls[p].res = "TOKEN_EXPIRED"
        /\ FindRefreshToken(authCalls[p].token).revokedAt # {}
        /\ \E t \in FindRefreshToken(authCalls[p].token).revokedAt :
                t < authCalls[p].token.exp

----------------------------------------------------------------------------
\* Claims on the send pipeline (checked under SpecOwnership)

\* the generation call of the send in slot p is in flight
Generating(p) == chatCalls[p].op = "send" /\ chatCalls[p].pc = "generate"

\* C23 as stated: in every state where the generation call of a send is in
\* flight, the user turn of that send is in the store.
C23_UserTurnStored ==
    \A p \in Slots : Generating(p) => Stored(chatCalls[p].userMessage)

\* C23 (amended): the step of a send that starts the generation call is the one
\* that has appended its user turn (role user, the submitted content) to the
\* store; while the call is in flight the turn leaves the store only by a
\* deleteConversation or deleteMessage; and as long as it is there, every
\* getConversation of the owner shows it, and the send has appended no
\* assistant turn (one shown after it belongs to another send).
C23_UserTurnDurable ==
    /\ [][\A p \in Slots :
            /\ (~Generating(p) /\ Generating(p)') =>
                    /\ messages' = Append(messages, chatCalls'[p].userMessage)
                    /\ chatCalls'[p].userMessage.role = "user"
                    /\ chatCalls'[p].userMessage.content = chatCalls[p].message
                    /\ chatCalls'[p].userMessage.conversationId = chatCalls[p].conv
            /\ (Generating(p) /\ Stored(chatCalls[p].userMessage)
                    /\ ~(Stored(chatCalls[p].userMessage))') =>
                    \E q \in Slots \ {p} :
                        DeleteConversationDelete(q) \/ DeleteMessageDelete(q)
       ]_vars
    /\ [](\A p \in Slots :
            (Generating(p) /\ Stored(chatCalls[p].userMessage)) =>
                /\ chatCalls[p].assistantMessage = NoMessage
                /\ \A shown \in getConversation(chatCalls[p].userId, chatCalls[p].conv) :
                      /\ shown.res = "ok"
                      /\ \E i \in DOMAIN shown.messages :
                            shown.messages[i] = chatCalls[p].userMessage)

\* a send to a new conversation waits for the generation service, its user turn
\* is the only turn of the conversation
C23_Witness ==
    \E p \in Slots :
        /\ Generating(p)
        /\ Stored(chatCalls[p].userMessage)
        /\ chatCalls[p].conversationId = {}
        /\ InConversation(chatCalls[p].conv) = {chatCalls[p].userMessage}


----------------------------------------------------------------------------
\* Claims on what a successful sendMessage call leaves behind (SpecChat)

\* a sendMessage call that has returned its result
SendReturned(p) == SendEnded(p) /\ chatCalls[p].res = "ok"

\* the step is taken by the sendMessage call of slot p
SendStep(p) == chatCalls'[p] # chatCalls[p] /\ chatCalls'[p].op = "send"

\* C24: a sendMessage call that returns successfully has appended exactly two
\* turns to the target conversation: first a user turn (status sent, format
\* text) with the submitted content, then an assistant turn with the adapter's
\* content, format and metadata. It returns the conversation id and exactly
\* these two turns as they were persisted, and its last step has set the
\* conversation's updatedAt to the time of that step.
C24_TwoTurnsAppended ==
    /\ [](\A p \in Slots :
            SendReturned(p) =>
                LET u == chatCalls[p].userMessage
                    a == chatCalls[p].assistantMessage
                IN /\ u.role = "user" /\ u.status = "sent" /\ u.format = "text"
                   /\ u.content = chatCalls[p].message
                   /\ a.role = "assistant" /\ a.status = "sent"
                   /\ a.content = chatCalls[p].agentResponse.content
                   /\ a.format = chatCalls[p].agentResponse.format
                   /\ a.metadata = chatCalls[p].agentResponse.metadata
                   /\ u.conversationId = chatCalls[p].conv
                   /\ a.conversationId = chatCalls[p].conv
                   /\ u.id < a.id)
    /\ [][\A p \in Slots :
            /\ (SendStep(p) /\ messages' # messages) =>
                    \/ /\ SendUserMessage(p)
                       /\ chatCalls[p].userMessage = NoMessage
                       /\ messages' = Append(messages, chatCalls'[p].userMessage)
                    \/ /\ SendAssistantMessage(p)
                       /\ chatCalls[p].userMessage # NoMessage
                       /\ chatCalls[p].assistantMessage = NoMessage
                       /\ messages' = Append(messages, chatCalls'[p].assistantMessage)
            /\ (SendStep(p) /\ SendReturned(p)') =>
                    /\ chatCalls[p].userMessage = chatCalls'[p].userMessage
                    /\ chatCalls[p].assistantMessage = chatCalls'[p].assistantMessage
                    /\ FindConversation(chatCalls[p].conv)'.updatedAt = now
                    /\ FindConversation(chatCalls[p].conv).updatedAt <= now
       ]_vars

\* a call has returned both turns of a conversation whose updatedAt it moved
\* past the time the conversation was created
C24_Witness ==
    \E p \in Slots :
        /\ SendReturned(p)
        /\ TurnsStored(p)
        /\ FindConversation(chatCalls[p].conv).updatedAt >
                FindConversation(chatCalls[p].conv).createdAt


\* the ids of the conversations in the store
ConversationIdsStored == {conversations[i].id : i \in DOMAIN conversations}

\* the step is the first step of a sendMessage call of slot p
SendStarts(p) == ChatFree(p) /\ SendStep(p)

\* C25: sendMessage without a conversation id creates exactly one new
\* conversation owned by the caller and appends to it; sendMessage with the id
\* of a conversation of the caller (one returned by an earlier call) appends to
\* that conversation, returns that id and creates no conversation; sendMessage
\* with an id that matches no conversation fails with NOT_FOUND and creates no
\* conversation and no turn.
C25_ConversationResolved ==
    /\ [][\A p \in Slots :
            LET call == chatCalls'[p]
                given == call.conversationId
            IN /\ (SendStarts(p) /\ given = {}) =>
                    /\ Len(conversations') = Len(conversations) + 1
                    /\ SubSeq(conversations', 1, Len(conversations)) = conversations
                    /\ conversations'[Len(conversations')].id = call.conv
                    /\ conversations'[Len(conversations')].userId = call.userId
                    /\ call.conv \notin ConversationIdsStored
                    /\ call.pc = "user"
                    /\ messages' = messages
               /\ (SendStarts(p) /\ given # {}) =>
                    /\ conversations' = conversations
                    /\ messages' = messages
                    /\ nextRowId' = nextRowId
                    /\ (given \cap ConversationIdsStored = {}) =>
                            call.pc = "done" /\ call.res = "NOT_FOUND"
                    /\ call.pc # "done" =>
                            /\ call.conv \in given
                            /\ FindConversation(call.conv).userId = call.userId
               /\ (SendStep(p) /\ ~ChatFree(p)) =>
                    /\ call.conv = chatCalls[p].conv
                    /\ call.conversationId = chatCalls[p].conversationId
                    /\ ConversationIdsStored' = ConversationIdsStored
                    /\ Len(conversations') = Len(conversations)
                    /\ messages' # messages =>
                            messages'[Len(messages')].conversationId = call.conv
       ]_vars
    /\ [](\A p \in Slots :
            /\ SendReturned(p) =>
                    /\ chatCalls[p].conversationId \in {{}, {chatCalls[p].conv}}
                    /\ chatCalls[p].userMessage.conversationId = chatCalls[p].conv
                    /\ chatCalls[p].assistantMessage.conversationId = chatCalls[p].conv
            /\ (SendEnded(p) /\ chatCalls[p].res = "NOT_FOUND") =>
                    /\ chatCalls[p].userMessage = NoMessage
                    /\ chatCalls[p].assistantMessage = NoMessage)

\* one call has started a conversation and returned its id, a second call given
\* that id has returned it again, and the conversation holds the turns of both
C25_Witness ==
    \E p \in Slots, q \in Slots :
        /\ SendReturned(p) /\ chatCalls[p].conversationId = {}
        /\ SendReturned(q) /\ chatCalls[q].conversationId = {chatCalls[p].conv}
        /\ TurnsStored(p) /\ TurnsStored(q)
        /\ Cardinality(InConversation(chatCalls[p].conv)) = 4
        /\ Len(conversations) = Len(SeedConversations) + 1


\* C26: the message list a sendMessage call posts to the generation service
\* consists of every turn the conversation held when the call resolved it, in
\* ascending timestamp order with each turn's role and content, followed by
\* exactly one final entry with role user and the new message; the new message
\* is not duplicated and no prior turn is omitted.
C26_RequestIsHistoryPlusMessage ==
    [][\A p \in Slots :
        LET call == chatCalls'[p]
        IN /\ (SendStarts(p) /\ call.pc = "user") =>
                /\ {call.history[i] : i \in DOMAIN call.history} = InConversation(call.conv)
                /\ Len(call.history) = Cardinality(InConversation(call.conv))
                /\ \A i \in DOMAIN call.history, j \in DOMAIN call.history :
                        i < j => call.history[i].timestamp <= call.history[j].timestamp
                /\ call.request = <<>>
           /\ (~Generating(p) /\ Generating(p)') =>
                LET before == chatCalls[p].history
                IN /\ Len(call.request) = Len(before) + 1
                   /\ \A i \in DOMAIN before :
                        /\ call.request[i].role = before[i].role
                        /\ call.request[i].content = before[i].content
                   /\ call.request[Len(before) + 1] =
                            [role |-> "user", content |-> call.message]
                   /\ \A i \in DOMAIN before : before[i].id # call.userMessage.id
                   /\ call.userMessage.content = call.message
           /\ (Generating(p) /\ Generating(p)') => call.request = chatCalls[p].request
    ]_vars

\* a call posts the two seeded turns, the two turns of an earlier call and its
\* own message
C26_Witness ==
    \E p \in Slots :
        /\ Generating(p)
        /\ Len(chatCalls[p].request) = 5
        /\ chatCalls[p].request[1].content = SeedMessages[1].content
        /\ chatCalls[p].request[2].content = SeedMessages[2].content
        /\ chatCalls[p].request[5] = [role |-> "user", content |-> chatCalls[p].message]


----------------------------------------------------------------------------
\* Title specification: sendMessage calls that start conversations, with first
\* messages shorter than, as long as, and longer than the 50 characters kept.
\* The title does not depend on the clock, so the clock stands.

TitleMessages ==
    {"Hello!",
     "How do I use the present perfect in the questions?",
     "What is the difference between 'affect' and effect?",
     "Could you explain when to use the present perfect tense?"}

NextTitle ==
    \/ \E p \in Slots, userId \in UserIds, message \in TitleMessages :
            SendStart(p, userId, message, {})
    \/ \E p \in Slots : SendUserMessage(p)
    \/ \E p \in Slots, fetched \in FetchOutcomes : SendGenerate(p, fetched)
    \/ \E p \in Slots : SendAssistantMessage(p)
    \/ \E p \in Slots : SendTouch(p)

SpecTitle == InitChat /\ [][NextTitle]_vars

\* the conversation with this id has this title
Titled(id, title) ==
    \E i \in DOMAIN conversations : conversations[i].id = id /\ conversations[i].title = title

\* C27 as stated: the stored title of a conversation never exceeds 50
\* characters.
C27_TitleAtMost50 ==
    \A i \in DOMAIN conversations : Len(conversations[i].title) <= 50

\* C27, amended: the title of a conversation created by sendMessage is the
\* first message itself when that has at most 50 characters, and otherwise its
\* first 50 characters followed by "...", 53 characters in all; no later step
\* of the call changes it.
C27_TitleTruncated ==
    /\ [][\A p \in Slots :
            (SendStarts(p) /\ chatCalls'[p].conversationId = {}) =>
                LET message == chatCalls'[p].message
                    title == conversations'[Len(conversations')].title
                IN /\ conversations'[Len(conversations')].id = chatCalls'[p].conv
                   /\ Len(message) <= 50 => title = message
                   /\ Len(message) > 50 =>
                        /\ title = SubSeq(message, 1, 50) \o "..."
                        /\ Len(title) = 53
       ]_vars
    /\ [][\A i \in DOMAIN conversations :
            (\E j \in DOMAIN conversations' : conversations'[j].id = conversations[i].id)
                => Titled(conversations[i].id, conversations[i].title)'
       ]_vars
    /\ [](\A i \in DOMAIN conversations : Len(conversations[i].title) <= 53)

\* the store holds a conversation titled by a message of exactly 50 characters
\* and one titled by the first 50 of 51 characters and the ellipsis
C27_Witness ==
    /\ Titled(4, "How do I use the present perfect in the questions?")
    /\ \E i \in DOMAIN conversations :
            /\ conversations[i].title =
                    "What is the difference between 'affect' and effect" \o "..."
            /\ Len(conversations[i].title) = 53


----------------------------------------------------------------------------
\* Deletion specification: calls that send to, read and delete the seeded
\* conversation and the first conversation a call creates, also after it has
\* been deleted. No call of the chat service reads the clock to decide, so the
\* clock stands.

\* the seeded conversation and the first id the store hands out
DeletableIds == {SeedConversations[1].id, Len(SeedConversations) + Len(SeedMessages) + 1}

NextDelete ==
    \/ \E p \in Slots, userId \in UserIds, message \in ChatMessages,
          conversationId \in {{}} \cup {{c} : c \in DeletableIds} :
            SendStart(p, userId, message, conversationId)
    \/ \E p \in Slots : SendUserMessage(p)
    \/ \E p \in Slots, fetched \in FetchOutcomes : SendGenerate(p, fetched)
    \/ \E p \in Slots : SendAssistantMessage(p)
    \/ \E p \in Slots : SendTouch(p)
    \/ \E p \in Slots, userId \in UserIds, conversationId \in DeletableIds :
            DeleteConversationStart(p, userId, conversationId)
    \/ \E p \in Slots : DeleteConversationDelete(p)
    \/ \E p \in Slots, userId \in UserIds, conversationId \in DeletableIds :
            GetConversation(p, userId, conversationId)

SpecDelete == InitChat /\ [][NextDelete]_vars

\* the deleteConversation call of slot p has removed conversation id
Deleted(p, id) ==
    /\ chatCalls[p].op = "deleteConversation"
    /\ chatCalls[p].pc = "done"
    /\ chatCalls[p].res = "ok"
    /\ chatCalls[p].conv = id

Rows(table) == {table[i] : i \in DOMAIN table}

\* C28: deleteConversation called by the owner removes the conversation and
\* all of its turns and nothing else; afterwards a getConversation, sendMessage
\* or deleteConversation called with that id fails with NOT_FOUND and changes
\* nothing, and every other conversation and its turns are unchanged.
C28_DeleteCascades ==
    /\ [][\A p \in Slots :
            /\ (~Deleted(p, chatCalls[p].conv) /\ Deleted(p, chatCalls[p].conv)') =>
                    LET gone == FindConversation(chatCalls[p].conv)
                    IN /\ gone # NoConversation
                       /\ gone.userId = chatCalls[p].userId
                       /\ Rows(conversations') = Rows(conversations) \ {gone}
                       /\ Rows(messages') = Rows(messages) \ InConversation(gone.id)
                       /\ Len(conversations') = Len(conversations) - 1
                       /\ Len(messages') = Len(messages) - Cardinality(InConversation(gone.id))
            /\ \A id \in DeletableIds :
                    (/\ FindConversation(id) = NoConversation
                     /\ ChatFree(p)
                     /\ chatCalls'[p] # chatCalls[p]
                     /\ chatCalls'[p].conversationId = {id}) =>
                        /\ chatCalls'[p].op \in {"send", "getConversation", "deleteConversation"}
                        /\ chatCalls'[p].pc = "done"
                        /\ chatCalls'[p].res = "NOT_FOUND"
                        /\ UNCHANGED <<conversations, messages>>
       ]_vars
    /\ [](\A p \in Slots, id \in DeletableIds :
            Deleted(p, id) =>
                /\ FindConversation(id) = NoConversation
                /\ InConversation(id) = {}
                /\ getConversation(chatCalls[p].userId, id) =
                        {[res |-> "NOT_FOUND", messages |-> <<>>]})

\* the owner has deleted the seeded conversation, none of its turns is left,
\* and a getConversation called with the deleted id has been answered NOT_FOUND
C28_Witness ==
    \E p \in Slots, q \in Slots :
        /\ Deleted(p, SeedConversations[1].id)
        /\ chatCalls[q].op = "getConversation"
        /\ chatCalls[q].conversationId = {SeedConversations[1].id}
        /\ chatCalls[q].res = "NOT_FOUND"
        /\ messages = <<>>


----------------------------------------------------------------------------
\* Sweep specification: the session specification with cleanupExpiredTokens run
\* at any moment, as a scheduled job would.

NextSweep ==
    \/ NextSession
    \/ cleanupExpiredTokens

SpecSweep == InitSession /\ [][NextSweep]_vars

RefreshTokenIds(table) == {table[i].id : i \in DOMAIN table}

\* C29: credential records are never deleted by refresh or logout (they are
\* only marked revoked); the sweep deletes only records that are both expired
\* and revoked, and returns the number of records it deleted.
C29_SweepExpiredAndRevoked ==
    [][/\ RefreshTokenIds(refreshTokens) \ RefreshTokenIds(refreshTokens') # {}
            => /\ authCalls' = authCalls
               /\ probe'.fn = "cleanupExpiredTokens"
               /\ probe'.out = Len(refreshTokens) - Len(refreshTokens')
       /\ \A i \in DOMAIN refreshTokens :
            refreshTokens[i].id \notin RefreshTokenIds(refreshTokens')
                => /\ refreshTokens[i].expiresAt < now
                   /\ refreshTokens[i].revokedAt # {}
    ]_vars


----------------------------------------------------------------------------
\* Progress specification: the deletion specification with the scheduling of
\* the runtime. The event loop runs the continuation of every call whose
\* awaited promise has settled; a query of the store settles, and the fetch
\* settles by a response, by an error, or by AbortSignal.timeout(
\* config.agent.timeout) at the latest. So no step of a call that is enabled
\* stays untaken forever.

Progress ==
    \A p \in Slots :
        /\ WF_vars(SendUserMessage(p))
        /\ WF_vars(\E fetched \in FetchOutcomes : SendGenerate(p, fetched))
        /\ WF_vars(SendAssistantMessage(p))
        /\ WF_vars(SendTouch(p))
        /\ WF_vars(DeleteConversationDelete(p))

SpecProgress == InitChat /\ [][NextDelete]_vars /\ Progress

\* a sendMessage call of slot p is in flight
Sending(p) == chatCalls[p].op = "send" /\ chatCalls[p].pc # "done"

\* every sendMessage call comes to an end, with its result or with an error,
\* and it calls the generation service once: after the fetch has ended the call
\* never waits on the generation service again
SendTerminates ==
    /\ \A p \in Slots : Sending(p) ~> SendEnded(p)
    /\ [][\A p \in Slots : Generating(p)' => chatCalls[p].pc \in {"user", "generate"}]_vars

\* C30: every sendMessage call eventually finishes: the one outbound attempt
\* ends by response, error or timeout, and after it the assistant turn is
\* appended and the call returns.
C30_SendCompletes ==
    \A p \in Slots :
        Generating(p) ~> (SendReturned(p) /\ chatCalls[p].assistantMessage # NoMessage)


----------------------------------------------------------------------------
\* Claims on deleteMessage (checked under SpecOwnership)

\* the deleteMessage call of slot p ends successfully in this step
MessageDeleted(p) ==
    /\ chatCalls[p].op = "deleteMessage"
    /\ chatCalls[p].pc = "delete"
    /\ chatCalls'[p].pc = "done"
    /\ chatCalls'[p].res = "ok"

\* C31: deleting a message is a soft delete: a deleteMessage by the owner marks
\* the message as deleted and does not remove it, so the message row is still
\* in the table afterwards.
C31_SoftDelete ==
    [][\A p \in Slots :
        MessageDeleted(p) =>
            \E i \in DOMAIN messages' :
                /\ messages'[i].id = chatCalls[p].userMessage.id
                /\ messages'[i].status # "sent"
    ]_vars


----------------------------------------------------------------------------
\* Format specification: sendMessage calls whose generation call is answered
\* with texts that hold one marker each, with texts that hold none, or not at
\* all. The calls are the demo account's and run one after the other; no step
\* reads the clock to decide, so the clock stands.

\* one text for each of the markdownPatterns, in their order, and two texts
\* whose asterisks and underscores are no emphasis but match its patterns
MarkedTexts ==
    { Fence \o "\nlet x = 1;\n" \o Fence,
      "Use " \o Backquote \o "have" \o Backquote \o " here.",
      "# Tenses",
      "Say **has** here.",
      "Say *has* here.",
      "Say _has_ here.",
      "- first\n- second",
      "1. first",
      "See [the guide](http://example.com).",
      "> quoted",
      "| a | b |",
      "---",
      "~~wrong~~",
      "2 * 3 * 4 = 24",
      "my_var and your_var" }

\* texts no pattern matches, most of them one character short of a marker
PlainTexts ==
    { "Hello! How can I help?", "", "2 * 3 is 6", "snake_case", "a | b",
      "#hashtag", "1.5 is a number", "--", "~wrong~", FallbackContent }

FormatFetches ==
    {Responded(200, BodyObject(JsString(text), {1})) : text \in MarkedTexts \cup PlainTexts}
        \cup {TimedOut}

NextFormat ==
    \/ \E p \in Slots, message \in ChatMessages :
            /\ \A q \in Slots : ChatFree(q)
            /\ SendStart(p, SeedUsers[1].id, message, {})
    \/ \E p \in Slots : SendUserMessage(p)
    \/ \E p \in Slots, fetched \in FormatFetches : SendGenerate(p, fetched)
    \/ \E p \in Slots : SendAssistantMessage(p)
    \/ \E p \in Slots : SendTouch(p)

SpecFormat == InitChat /\ [][NextFormat]_vars

\* the assistant turns that sendMessage calls have stored
AssistantTurns ==
    {m \in Rows(messages) : m.role = "assistant"} \ Rows(SeedMessages)

----------------------------------------------------------------------------
\* Claims on the account row under concurrent logins (checked under SpecLogin)

\* C33: in every reachable state, under every interleaving of concurrent login
\* calls, each account has loginAttempts >= 0, and an account whose lockedUntil
\* is null has fewer loginAttempts than the configured maximum.
C33_OpenBelowMaximum ==
    \A i \in DOMAIN users :
        /\ users[i].loginAttempts >= 0
        /\ users[i].lockedUntil = {} => users[i].loginAttempts < MaxLoginAttempts

\* an account has been locked at the maximum while another login call, which
\* read the row before the lock, is still in flight
C33_Witness ==
    \E i \in DOMAIN users, p \in Slots :
        /\ users[i].loginAttempts >= MaxLoginAttempts
        /\ users[i].lockedUntil # {}
        /\ authCalls[p].op = "login"
        /\ authCalls[p].pc = "password"
        /\ authCalls[p].user.id = users[i].id
        /\ authCalls[p].user.lockedUntil = {}


----------------------------------------------------------------------------
\* Claims on revocation and the sweep (checked under SpecSweep)

\* the refresh or logout call of slot q has revoked the row of its token
HasRevoked(q) == authCalls[q].op \in {"refresh", "logout"} /\ authCalls[q].revoked

\* slot p starts a refresh call in this step and the call passes its checks
RefreshAccepted(p) ==
    /\ AuthFree(p)
    /\ authCalls'[p] # authCalls[p]
    /\ authCalls'[p].op = "refresh"
    /\ authCalls'[p].pc = "revoke"

\* C34: revocation is permanent: no operation clears revokedAt on a credential
\* record, and a refresh-token value that has once been revoked is never
\* accepted by refresh again, whatever refresh, logout and sweep operations
\* follow (a sweep that deletes its row and a later issuance included).
C34_RevocationPermanent ==
    [][/\ \A i \in DOMAIN refreshTokens, j \in DOMAIN refreshTokens' :
            (refreshTokens'[j].id = refreshTokens[i].id /\ refreshTokens[i].revokedAt # {})
                => refreshTokens'[j].revokedAt # {}
       /\ \A p \in Slots, q \in Slots :
            (p # q /\ HasRevoked(q) /\ RefreshAccepted(p))
                => authCalls'[p].token # authCalls[q].token
    ]_vars


----------------------------------------------------------------------------
\* Access specification: the session specification, its calls running one after
\* the other, with requests that present a Bearer token to authenticate.

\* the access token issued by the login at time 0
FirstAccessToken == generateAccessToken(TokenPayload(SeedUsers[1]), 0)

\* what a client can put into the Authorization header: nothing, the access
\* tokens issued so far, a refresh token, a forgery
BearerTokens ==
    {NoToken, FirstAccessToken, FirstToken, ForgedToken}
        \cup {authCalls[p].access : p \in Slots}

NextAccess ==
    \/ Tick
    \/ \E p \in Slots, token \in PresentableTokens : Quiet /\ RefreshStart(p, token)
    \/ \E p \in Slots : RefreshRevoke(p)
    \/ \E p \in Slots : RefreshIssue(p)
    \/ \E p \in Slots, token \in PresentableTokens : Quiet /\ LogoutStart(p, token)
    \/ \E p \in Slots : LogoutRevoke(p)
    \/ \E token \in BearerTokens : Authenticate(token)

SpecAccess == InitSession /\ [][NextAccess]_vars

\* the request of this step's authenticate
Authenticates == probe' # probe /\ probe'.fn = "authenticate"

\* every credential of the account is revoked
AllRevoked(userId) ==
    \A i \in DOMAIN refreshTokens :
        refreshTokens[i].userId = userId => refreshTokens[i].revokedAt # {}

\* C35: authenticate accepts a request exactly when its Bearer token is signed
\* with the access key and has not expired, without consulting the credential
\* store or the account record: an access token issued before the logout or
\* the rotation of its refresh token is still accepted afterwards, until it
\* expires.
C35_AccessOutlivesRevocation ==
    /\ [][Authenticates =>
            LET token == probe'.arg
                accepted == probe'.out.status = "ok"
            IN /\ accepted <=> /\ token # NoToken
                               /\ token.secret = AccessSecret
                               /\ now < token.exp
               /\ accepted => probe'.out.user = [userId |-> token.userId,
                                                 email |-> token.email,
                                                 role |-> token.role]
               /\ UNCHANGED <<users, refreshTokens, authCalls>>
       ]_vars
    /\ [](\A p \in Slots :
            (HasRevoked(p) /\ authCalls[p].pc = "done" /\ now < FirstAccessToken.exp)
                => verifyAccessToken(FirstAccessToken, now) = "ok")

\* the account has logged out, no credential of it is left unrevoked, and a
\* request with the access token of its login has been accepted after that
C35_Witness ==
    /\ probe.fn = "authenticate"
    /\ probe.arg = FirstAccessToken
    /\ probe.out.status = "ok"
    /\ AllRevoked(FirstAccessToken.userId)
    /\ \E p \in Slots : authCalls[p].op = "logout" /\ authCalls[p].revoked
    /\ \A i \in DOMAIN refreshTokens :
            \A r \in refreshTokens[i].revokedAt : r <= probe.at


\* the scheduled job runs in this step
Sweeps == SweepRuns' = SweepRuns + 1

\* a stored row that refresh trusts at time t: not revoked and not expired
TrustedRow(row, t) == row.revokedAt = {} /\ ~(row.expiresAt < t)

\* the refresh call of slot p has passed its checks and has not yet revoked
RefreshPending(p) == authCalls[p].op = "refresh" /\ authCalls[p].pc = "revoke"

\* C36: the sweep never deletes a trusted credential: a record that is not
\* revoked and not expired when the sweep runs is still stored, unchanged, after
\* it and refresh still accepts its token; and at whatever point the sweep runs,
\* a refresh that would succeed still succeeds: the row of a refresh call that
\* has passed its checks is still there for its update.
C36_SweepKeepsTrusted ==
    [][Sweeps =>
        /\ \A i \in DOMAIN refreshTokens :
            TrustedRow(refreshTokens[i], now)
                => /\ \E j \in DOMAIN refreshTokens' : refreshTokens'[j] = refreshTokens[i]
                   /\ \A j \in DOMAIN refreshTokens' :
                        refreshTokens'[j].token = refreshTokens[i].token
                            => /\ refreshTokens'[j] = refreshTokens[i]
                               /\ RefreshOutcome(refreshTokens[i].token,
                                                 refreshTokens'[j], now')
                                    = RefreshOutcome(refreshTokens[i].token,
                                                     refreshTokens[i], now)
        /\ \A p \in Slots :
            (RefreshPending(p) /\ HasRefreshTokenId(authCalls[p].row.id))
                => HasRefreshTokenId(authCalls[p].row.id)'
    ]_vars

\* the part of C36 on the stored rows alone
C36_TrustedRowsKept ==
    [][Sweeps =>
        \A i \in DOMAIN refreshTokens :
            TrustedRow(refreshTokens[i], now)
                => /\ \E j \in DOMAIN refreshTokens' : refreshTokens'[j] = refreshTokens[i]
                   /\ \A j \in DOMAIN refreshTokens' :
                        refreshTokens'[j].token = refreshTokens[i].token
                            => /\ refreshTokens'[j] = refreshTokens[i]
                               /\ RefreshOutcome(refreshTokens[i].token,
                                                 refreshTokens'[j], now')
                                    = RefreshOutcome(refreshTokens[i].token,
                                                     refreshTokens[i], now)
    ]_vars


----------------------------------------------------------------------------
\* Authentication specification: login and register calls within one second of
\* the clock, on the handle of the seeded account and on a handle that is
\* unknown until a register call creates it.  One login and one register are in
\* flight at a time, interleaved with each other: the first slot carries the
\* logins, the second the registers.

NextAuth ==
    \/ \E p \in Slots, email \in RegisterEmails, password \in Passwords :
            p = 1 /\ LoginStart(p, email, password)
    \/ \E p \in Slots : LoginPassword(p)
    \/ \E p \in Slots : LoginIssue(p)
    \/ \E p \in Slots, email \in RegisterEmails, password \in Passwords :
            p = 2 /\ RegisterStart(p, email, password)
    \/ \E p \in Slots : RegisterCreate(p)
    \/ \E p \in Slots : RegisterIssue(p)

SpecAuth == InitLockout /\ [][NextAuth]_vars

\* the call of slot p takes a step; it ends in this step
AuthSteps(p) == authCalls'[p] # authCalls[p]
AuthEnds(p) == AuthSteps(p) /\ authCalls'[p].pc = "done"

\* the login has ended on an unknown handle, a wrong password or a lock
LoginFailed(call) ==
    call.op = "login" /\ call.res \in {"INVALID_CREDENTIALS", "ACCOUNT_LOCKED"}

\* the register has ended with a Conflict (409)
RegisterConflict(call) ==
    call.op = "register" /\ call.res # "ok" /\ ErrorStatus(call.res) = 409

\* the login of slot p ends on an unknown handle: at its lookup, with
\* INVALID_CREDENTIALS
UnknownHandle(p) ==
    AuthFree(p) /\ AuthEnds(p) /\ authCalls'[p].res = "INVALID_CREDENTIALS"

\* C37: failed authentication calls issue nothing: a login that fails (unknown
\* handle, wrong password, or locked) and a register that fails with Conflict
\* create no credential record and return no tokens; for an unknown handle and
\* for Conflict the call creates and modifies no account record either.
C37_FailedCallsIssueNothing ==
    [][\A p \in Slots :
        /\ (AuthSteps(p) /\ authCalls[p].pc # "issue")
            => refreshTokens' = refreshTokens
        /\ (AuthSteps(p) /\ AuthFree(p))
            => users' = users
        /\ (AuthEnds(p) /\ (LoginFailed(authCalls'[p]) \/ RegisterConflict(authCalls'[p])))
            => /\ refreshTokens' = refreshTokens
               /\ authCalls[p].pc # "issue"
               /\ authCalls'[p].out = NoToken
               /\ authCalls'[p].access = NoToken
        /\ (UnknownHandle(p) \/ (AuthEnds(p) /\ RegisterConflict(authCalls'[p])))
            => /\ users' = users
               /\ authCalls[p].pc # "issue"
      ]_vars

\* the part of C37 on the calls that fail before they reach their issuing step:
\* they write no credential and return no token, a login on an unknown handle
\* and a register with a Conflict write no account; and a call that fails at its
\* issuing step fails on the unique index of the credentials alone and stores
\* and returns no token
C37_NothingBeforeIssue ==
    [][\A p \in Slots :
        /\ (AuthSteps(p) /\ authCalls[p].pc # "issue")
            => refreshTokens' = refreshTokens
        /\ (AuthSteps(p) /\ AuthFree(p))
            => users' = users
        /\ (/\ AuthEnds(p) /\ authCalls[p].pc # "issue"
            /\ (LoginFailed(authCalls'[p]) \/ RegisterConflict(authCalls'[p])))
            => /\ authCalls'[p].out = NoToken
               /\ authCalls'[p].access = NoToken
        /\ (\/ UnknownHandle(p)
            \/ AuthEnds(p) /\ authCalls[p].pc # "issue" /\ RegisterConflict(authCalls'[p]))
            => users' = users
        /\ (AuthEnds(p) /\ authCalls[p].pc = "issue" /\ authCalls'[p].res # "ok")
            => /\ authCalls'[p].res = "P2002"
               /\ refreshTokens' = refreshTokens
               /\ authCalls'[p].out = NoToken
               /\ authCalls'[p].access = NoToken
      ]_vars


----------------------------------------------------------------------------
\* Integrity specification: sendMessage, createConversation, deleteConversation
\* and deleteMessage calls on the conversations and turns in the store,
\* whoever owns them, interleaved.  createConversation is also called for an
\* owner that is no account.  No call reads the clock to decide, so the clock
\* stands.

\* an id that no account has
GhostUserId == Len(SeedUsers) + 1

\* the optional title and firstMessage of createConversationSchema ("" when
\* the field is left out)
Titles == {"", "Grammar practice"}
FirstMessages == {""} \cup ChatMessages

NextIntegrity ==
    \/ \E p \in Slots, userId \in UserIds, message \in ChatMessages,
          conversationId \in {{}} \cup {{c} : c \in KnownConversationIds} :
            SendStart(p, userId, message, conversationId)
    \/ \E p \in Slots : SendUserMessage(p)
    \/ \E p \in Slots, fetched \in FetchOutcomes : SendGenerate(p, fetched)
    \/ \E p \in Slots : SendAssistantMessage(p)
    \/ \E p \in Slots : SendTouch(p)
    \/ \E p \in Slots, userId \in UserIds \cup {GhostUserId}, title \in Titles,
          firstMessage \in FirstMessages :
            CreateConversation(p, userId, title, firstMessage)
    \/ \E p \in Slots, userId \in UserIds, conversationId \in KnownConversationIds :
            DeleteConversationStart(p, userId, conversationId)
    \/ \E p \in Slots : DeleteConversationDelete(p)
    \/ \E p \in Slots, userId \in UserIds, messageId \in KnownMessageIds :
            DeleteMessageStart(p, userId, messageId)
    \/ \E p \in Slots : DeleteMessageDelete(p)

SpecIntegrity == InitChat /\ [][NextIntegrity]_vars

\* the sendMessage call of slot p has lost its conversation to a deletion
LostConversation(p) ==
    /\ chatCalls[p].op = "send"
    /\ chatCalls[p].conv # 0
    /\ FindConversation(chatCalls[p].conv) = NoConversation

\* C38: referential integrity holds in every reachable state, under every
\* interleaving of sendMessage, createConversation, deleteConversation and
\* deleteMessage: every stored turn belongs to a stored conversation and every
\* stored conversation belongs to a stored account; a sendMessage whose
\* conversation has been deleted leaves no turn of it in the store.
C38_ReferentialIntegrity ==
    /\ \A i \in DOMAIN messages :
            \E j \in DOMAIN conversations : conversations[j].id = messages[i].conversationId
    /\ \A j \in DOMAIN conversations :
            \E u \in DOMAIN users : users[u].id = conversations[j].userId
    /\ \A p \in Slots :
            LostConversation(p)
                => \A i \in DOMAIN messages :
                        /\ messages[i].conversationId # chatCalls[p].conv
                        /\ messages[i].id # chatCalls[p].userMessage.id
                        /\ messages[i].id # chatCalls[p].assistantMessage.id

\* a sendMessage call had stored its user turn when a deleteConversation call
\* that ran beside it deleted the conversation with its turns; the store then
\* refused the assistant turn of the call
C38_Witness ==
    \E p \in Slots, q \in Slots :
        /\ LostConversation(p)
        /\ chatCalls[p].pc = "done" /\ chatCalls[p].res = "P2003"
        /\ chatCalls[p].userMessage # NoMessage
        /\ chatCalls[q].op = "deleteConversation"
        /\ chatCalls[q].pc = "done" /\ chatCalls[q].res = "ok"
        /\ chatCalls[q].conv = chatCalls[p].conv

====
